---- MODULE Spec2Model ----
(***************************************************************************)
(* Model of the firescope raster pipeline.                                 *)
(*   src/src/preprocessing.py : extract_date_from_filename, process_fires  *)
(*   src/src/data_download.py : init_gee, download_srtm, download_era5,    *)
(*                              download_sentinel2, main                   *)
(*   src/app/main.py          : apply_comuna_mask, risk_rgba_for_range,    *)
(*                              continuous_rgba, downsample_with_meta      *)
(* Spec        models one run of process_fires over a directory of         *)
(*             fire-scar shapefiles.                                       *)
(* SpecRender  models one call of risk_rgba_for_range or continuous_rgba.  *)
(* SpecDown    models one call of downsample_with_meta.                    *)
(* SpecPipe    models one run of an entry point that loads rasters: main   *)
(*             of preprocessing.py, load_map_layers followed by build_map, *)
(*             or the loaders of pages/2_Simulacion.py.                    *)
(* SpecNdvi    models the index of load_map_layers on one pixel.           *)
(* SpecSlope   models the slope band of load_map_layers.                   *)
(* SpecDate    models extract_date_from_filename on one file name.         *)
(* SpecDownload models one run of main of src/data_download.py.            *)
(***************************************************************************)
EXTENDS Integers, Sequences, FiniteSets, TLC

\* ------------------------------------------------------------------------
\* Bounds of the model
\* ------------------------------------------------------------------------
MaxFiles == 2
MaxFeat == 2
\* Largest class code of the rasters and of the requested ranges; the
\* classification scheme knows the codes 0..4.
MaxClass == 5
\* Largest height and width of an array handed to downsample_with_meta, and
\* the largest stride.
MaxDim == 3
MaxFactor == 3

\* ------------------------------------------------------------------------
\* Values shared by both specifications
\* ------------------------------------------------------------------------
\* Python's None; a value that is present is wrapped as Some(v).
None == <<>>
Some(v) == <<v>>
\* No raster file at the output path.
NoFile == [written |-> FALSE]
\* No tuple taken from valid_fires yet.
NoTuple == [shp |-> 0]

\* Shape (height, width) of the master raster srtm_valdivia.tif.
RefMeta == [height |-> 1, width |-> 2]

PixelsOf(h, w) == (1..h) \X (1..w)

VARIABLES
    all_shps,        \* shapefiles found by os.walk, in walk order
    ref_exists,      \* whether REF_RASTER can be opened
    pc,              \* position inside process_fires
    i,               \* index of the shapefile the loop is at
    dst_meta,        \* metadata read from the master raster (or None)
    valid_fires,     \* list of (date_num, gdf_clipped, name) tuples
    latest,          \* the tuple taken as valid_fires[0] after the sort
    out_cumulative,  \* raster written to cumulative_output (or NoFile)
    out_recent,      \* raster written to recent_output (or NoFile)
    call,            \* arguments of the renderer call
    rpc,             \* position inside the renderer
    rgba,            \* the RGBA buffer being built
    ret,             \* the value the renderer returned
    ds_call,         \* arguments of the downsample_with_meta call
    ds_pc,           \* position inside downsample_with_meta
    ds_meta,         \* the caller's meta_4326 dictionary
    ds_ret,          \* the pair (arr_ds, meta_ds) being built and returned
    prog,            \* the entry point that runs
    raw,             \* the source files on disk
    args,            \* the arguments the entry point is called with
    ppc,             \* position inside the entry point
    nth,             \* index of the call the entry point is at
    outs,            \* what has been produced: files written, layers returned
    handles,         \* file handles that are open
    events           \* the stages performed so far, in order

firesVars == <<all_shps, ref_exists, pc, i, dst_meta, valid_fires, latest,
               out_cumulative, out_recent>>
renderVars == <<call, rpc, rgba, ret>>
downVars == <<ds_call, ds_pc, ds_meta, ds_ret>>
vars == <<all_shps, ref_exists, pc, i, dst_meta, valid_fires, latest,
          out_cumulative, out_recent, call, rpc, rgba, ret,
          ds_call, ds_pc, ds_meta, ds_ret,
          prog, raw, args, ppc, nth, outs, handles, events>>
pipeVars == <<prog, raw, args, ppc, nth, outs, handles, events>>

\* The variables a specification leaves alone.
notFires == <<renderVars, downVars, pipeVars>>
notRender == <<firesVars, downVars, pipeVars>>
notDown == <<firesVars, renderVars, pipeVars>>

PipeIdle ==
    /\ prog = "idle"
    /\ raw = <<>>
    /\ args = <<>>
    /\ ppc = "idle"
    /\ nth = 0
    /\ outs = <<>>
    /\ handles = {}
    /\ events = <<>>

DownIdle ==
    /\ ds_call = [fn |-> "idle"]
    /\ ds_pc = "idle"
    /\ ds_meta = [fn |-> "idle"]
    /\ ds_ret = [fn |-> "idle"]

\* No RGBA buffer allocated.
NoBuffer == [shape |-> <<0, 0, 0>>, px |-> <<>>]

\* ========================================================================
\* preprocessing.py : extract_date_from_filename
\* ========================================================================
Digits == {"0", "1", "2", "3", "4", "5", "6", "7", "8", "9"}

DigitVal(ch) ==
    CASE ch = "0" -> 0 [] ch = "1" -> 1 [] ch = "2" -> 2 [] ch = "3" -> 3
      [] ch = "4" -> 4 [] ch = "5" -> 5 [] ch = "6" -> 6 [] ch = "7" -> 7
      [] ch = "8" -> 8 [] ch = "9" -> 9

\* Length of the digit run the pattern (\d{8}) asks for.
DateLen == 8

RECURSIVE IntOfDigits(_)
\* int() of a string of decimal digits.
IntOfDigits(s) ==
    IF s = <<>> THEN 0
    ELSE 10 * IntOfDigits(SubSeq(s, 1, Len(s) - 1)) + DigitVal(s[Len(s)])

\* Positions at which re.search(r'(\d{8})', filename) can match: DateLen
\* consecutive digits start there.
MatchStarts(filename) ==
    {k \in 1..(Len(filename) - DateLen + 1) :
        \A j \in 0..(DateLen - 1) : filename[k + j] \in Digits}

\* A mutation of the search: the last match instead of the leftmost one.
RightmostMatch(filename) ==
    CHOOSE k \in MatchStarts(filename) : \A m \in MatchStarts(filename) : k >= m

\* The match re.search reports: the leftmost one.
LeftmostMatch(filename) ==
    CHOOSE k \in MatchStarts(filename) : \A m \in MatchStarts(filename) : k <= m

\* A mutation of the fallback: a name without a date token gets the largest
\* date instead of the smallest.
extract_date_sentinel_high(filename) ==
    IF MatchStarts(filename) # {}
    THEN IntOfDigits(SubSeq(filename, LeftmostMatch(filename),
                            LeftmostMatch(filename) + DateLen - 1))
    ELSE 99999999

extract_date_from_filename(filename) ==
    IF MatchStarts(filename) # {}
    THEN IntOfDigits(SubSeq(filename, LeftmostMatch(filename),
                            LeftmostMatch(filename) + DateLen - 1))
    ELSE 0

\* ========================================================================
\* File names, geometries and rasters of process_fires
\* ========================================================================
Stem == <<"F", "i", "r", "e", "S", "c", "a", "r", "_">>
Ext == <<".", "s", "h", "p">>

Token2010 == <<"2", "0", "1", "0", "0", "1", "0", "1">>
Token2020 == <<"2", "0", "2", "0", "1", "2", "3", "1">>

NameOf(token) == Stem \o token \o Ext

\* Base names of the shapefiles: two dated ones and one without a date.
FireNames == {NameOf(Token2010), NameOf(Token2020), NameOf(<<"C", "L">>)}

\* The world is cut into the cells of the master grid (a cell stands for a
\* pixel whose centre a polygon may cover) and the area outside the master
\* raster's bounds.
Outside == <<0, 0>>
BBoxCells == PixelsOf(RefMeta.height, RefMeta.width)
Cells == BBoxCells \cup {Outside}

\* A geometry is the set of cells its polygon covers, already expressed in
\* the master CRS.
Geoms == {{c} : c \in Cells}

\* A GeoDataFrame is a collection of at most MaxFeat geometries.
Gdfs == {g \in SUBSET Geoms : Cardinality(g) <= MaxFeat}

\* geom.intersects(bbox_valdivia)
Intersects(geom) == geom \cap BBoxCells # {}

\* A shapefile on disk: its base name, whether gpd.read_file succeeds, and
\* the features it holds.
ShpFiles ==
    [name : FireNames, readable : {TRUE}, gdf : Gdfs]
        \cup [name : FireNames, readable : {FALSE}, gdf : {{}}]

RECURSIVE SeqsUpTo(_, _)
SeqsUpTo(S, n) ==
    IF n = 0 THEN {<<>>}
    ELSE LET shorter == SeqsUpTo(S, n - 1)
         IN  shorter \cup {Append(s, x) : s \in {t \in shorter : Len(t) = n - 1}, x \in S}

\* rasterio.features.rasterize(shapes, out_shape=(h, w), fill=0) with every
\* shape burnt with value 1.
rasterize(shapes, h, w) ==
    [height |-> h, width |-> w,
     data |-> [p \in PixelsOf(h, w) |->
                  IF \E geom \in shapes : p \in geom THEN 1 ELSE 0]]

\* np.zeros((h, w), dtype=uint8)
zeros(h, w) ==
    [height |-> h, width |-> w, data |-> [p \in PixelsOf(h, w) |-> 0]]

RECURSIVE ConcatAllButLast(_)
\* A mutation of the concatenation: the last GeoDataFrame is left out.
ConcatAllButLast(fires) ==
    IF Len(fires) <= 1 THEN {}
    ELSE fires[1].gdf \cup ConcatAllButLast(Tail(fires))

\* A mutation of the concatenation: only the first GeoDataFrame is kept.
ConcatFirstOnly(fires) ==
    IF fires = <<>> THEN {} ELSE fires[1].gdf

RECURSIVE ConcatGdfs(_)
\* pd.concat([f[1] for f in valid_fires]).geometry
ConcatGdfs(fires) ==
    IF fires = <<>> THEN {}
    ELSE fires[1].gdf \cup ConcatGdfs(Tail(fires))

\* A mutation of the insertion: x goes before the elements of equal date.
InsertUnstable(sorted, x) ==
    LET before == SelectSeq(sorted, LAMBDA y : y.date > x.date)
        after == SelectSeq(sorted, LAMBDA y : y.date <= x.date)
    IN  before \o <<x>> \o after

\* Insertion of x into a list sorted by descending date, after every element
\* whose date is greater than or equal to x's (stable).
InsertStable(sorted, x) ==
    LET before == SelectSeq(sorted, LAMBDA y : y.date >= x.date)
        after == SelectSeq(sorted, LAMBDA y : y.date < x.date)
    IN  before \o <<x>> \o after

RECURSIVE SortByDateDesc(_)
\* valid_fires.sort(key=lambda x: x[0], reverse=True)
SortByDateDesc(fires) ==
    IF fires = <<>> THEN <<>>
    ELSE InsertStable(SortByDateDesc(SubSeq(fires, 1, Len(fires) - 1)),
                      fires[Len(fires)])

\* ========================================================================
\* preprocessing.py : process_fires
\* ========================================================================
RenderIdle ==
    /\ call = [fn |-> "idle"]
    /\ rpc = "idle"
    /\ rgba = NoBuffer
    /\ ret = None

\* State at the entry of process_fires: the directory has been walked.
Init ==
    /\ all_shps \in SeqsUpTo(ShpFiles, MaxFiles)
    /\ ref_exists \in BOOLEAN
    /\ pc = "start"
    /\ i = 0
    /\ dst_meta = None
    /\ valid_fires = <<>>
    /\ latest = NoTuple
    /\ out_cumulative = NoFile
    /\ out_recent = NoFile
    /\ RenderIdle
    /\ DownIdle
    /\ PipeIdle

\* if not all_shps: return
ReturnNoShapefiles ==
    /\ pc = "start"
    /\ all_shps = <<>>
    /\ pc' = "done"
    /\ UNCHANGED <<all_shps, ref_exists, i, dst_meta, valid_fires, latest,
                   out_cumulative, out_recent>>
    /\ UNCHANGED notFires

\* dst_meta, _, dst_bounds = get_reference_meta()
GetReferenceMeta ==
    /\ pc = "start"
    /\ all_shps # <<>>
    /\ IF ref_exists
       THEN /\ dst_meta' = RefMeta
            /\ pc' = "loop"
            /\ i' = 1
       ELSE /\ pc' = "error"
            /\ UNCHANGED <<dst_meta, i>>
    /\ UNCHANGED <<all_shps, ref_exists, valid_fires, latest,
                   out_cumulative, out_recent>>
    /\ UNCHANGED notFires

\* A mutation of the filter: every readable shapefile is kept, whether or
\* not it intersects the bounding box.
ExamineResultNoFilter(k) ==
    LET f == all_shps[k]
    IN  IF ~f.readable THEN <<>>
        ELSE <<[date |-> extract_date_from_filename(f.name),
                gdf |-> f.gdf,
                name |-> f.name,
                shp |-> k]>>

\* The tuple appended for shapefile number k, or <<>> when the file is
\* skipped: an exception while reading, no feature intersecting the bounding
\* box, or nothing left after the clip.
ExamineResult(k) ==
    LET f == all_shps[k]
        gdf_clipped == {geom \in f.gdf : Intersects(geom)}
    IN  IF ~f.readable THEN <<>>
        ELSE IF ~(\E geom \in f.gdf : Intersects(geom)) THEN <<>>
        ELSE IF gdf_clipped = {} THEN <<>>
        ELSE <<[date |-> extract_date_from_filename(f.name),
                gdf |-> gdf_clipped,
                name |-> f.name,
                shp |-> k]>>

\* One iteration of: for shp_path in all_shps
ExamineShp ==
    /\ pc = "loop"
    /\ i <= Len(all_shps)
    /\ valid_fires' = valid_fires \o ExamineResult(i)
    /\ i' = i + 1
    /\ UNCHANGED <<all_shps, ref_exists, pc, dst_meta, latest,
                   out_cumulative, out_recent>>
    /\ UNCHANGED notFires

\* if not valid_fires: write two empty rasters and return
WriteEmpty ==
    /\ pc = "loop"
    /\ i > Len(all_shps)
    /\ valid_fires = <<>>
    /\ out_cumulative' = zeros(dst_meta.height, dst_meta.width)
    /\ out_recent' = zeros(dst_meta.height, dst_meta.width)
    /\ pc' = "done"
    /\ UNCHANGED <<all_shps, ref_exists, i, dst_meta, valid_fires, latest>>
    /\ UNCHANGED notFires

\* 1. cumulative raster of all the clipped features
WriteCumulative ==
    /\ pc = "loop"
    /\ i > Len(all_shps)
    /\ valid_fires # <<>>
    /\ out_cumulative' = rasterize(ConcatGdfs(valid_fires),
                                   dst_meta.height, dst_meta.width)
    /\ pc' = "recent"
    /\ UNCHANGED <<all_shps, ref_exists, i, dst_meta, valid_fires, latest,
                   out_recent>>
    /\ UNCHANGED notFires

\* 2. sort by date, take the first tuple and rasterize it alone
WriteRecent ==
    /\ pc = "recent"
    /\ valid_fires' = SortByDateDesc(valid_fires)
    /\ latest' = valid_fires'[1]
    /\ out_recent' = rasterize(latest'.gdf, dst_meta.height, dst_meta.width)
    /\ pc' = "done"
    /\ UNCHANGED <<all_shps, ref_exists, i, dst_meta, out_cumulative>>
    /\ UNCHANGED notFires

Next ==
    \/ ReturnNoShapefiles
    \/ GetReferenceMeta
    \/ ExamineShp
    \/ WriteEmpty
    \/ WriteCumulative
    \/ WriteRecent

Spec == Init /\ [][Next]_vars

\* ========================================================================
\* app/main.py : samples, colours and buffers of the renderers
\* ========================================================================
\* A float32 sample: a finite number, NaN or an infinity.
Num(v) == [k |-> "num", v |-> v]
NaN == [k |-> "nan", v |-> 0]
PosInf == [k |-> "inf", v |-> 1]
NegInf == [k |-> "inf", v |-> -1]

Samples == {Num(v) : v \in 0..MaxClass} \cup {NaN, PosInf}
ContSamples == {Num(0), Num(2), Num(4), NaN, PosInf, NegInf}

\* Shapes (h, w) of the arrays handed to the renderers.
Shapes == {<<1, 2>>, <<2, 1>>}

\* Values of vmin and vmax (None when the source band is absent).
RampEnds == {None, Some(1), Some(3)}

\* Colour ramps the callers name.
CmapNames == {"RdYlGn", "viridis"}

\* Opacities the callers pass, in hundredths (0.6 and 0.85).
Opacities == {60, 85}

ArraysOf(shape, S) == [PixelsOf(shape[1], shape[2]) -> S]

MasksOf(shape) ==
    {None} \cup {Some(m) : m \in [PixelsOf(shape[1], shape[2]) -> BOOLEAN]}

\* CLASS_COLORS
CLASS_COLORS ==
    [c \in 0..4 |->
        CASE c = 0 -> <<200, 200, 200>>
          [] c = 1 -> <<181, 217, 168>>
          [] c = 2 -> <<255, 235, 170>>
          [] c = 3 -> <<255, 170, 85>>
          [] c = 4 -> <<215, 48, 39>>]

\* CLASS_COLORS.get(cls, (0, 0, 0))
ClassColorOr(cls) ==
    IF cls \in DOMAIN CLASS_COLORS THEN CLASS_COLORS[cls] ELSE <<0, 0, 0>>

\* A mutation of the alpha: the opacity is ignored, the pixel is opaque.
AlphaOpaque(opacity) == 255

\* int(opacity * 255) stored in a uint8 channel; opacity is in hundredths.
AlphaOf(opacity) == ((opacity * 255) \div 100) % 256

\* arr == cls for one sample: NaN and the infinities equal no class.
SampleEquals(sample, cls) == sample.k = "num" /\ sample.v = cls

\* np.isnan and np.isfinite for one sample
isnan(sample) == sample.k = "nan"
isfinite(sample) == sample.k = "num"

\* np.zeros((h, w, 4), dtype="uint8")
ZeroBuffer(shape) ==
    [shape |-> <<shape[1], shape[2], 4>>,
     px |-> [p \in PixelsOf(shape[1], shape[2]) |-> <<0, 0, 0, 0>>]]

\* One pass of the loop body of risk_rgba_for_range for class cls.
PaintClass(buf, arr, cls, opacity) ==
    [buf EXCEPT !.px =
        [p \in DOMAIN buf.px |->
            IF SampleEquals(arr[p], cls)
            THEN <<ClassColorOr(cls)[1], ClassColorOr(cls)[2],
                   ClassColorOr(cls)[3], AlphaOf(opacity)>>
            ELSE buf.px[p]]]

RECURSIVE PaintExclusive(_, _, _, _, _)
\* A mutation of the loop: range(rmin, rmax), the last class left out.
PaintExclusive(buf, arr, cls, rmax, opacity) ==
    IF cls >= rmax THEN buf
    ELSE PaintExclusive(PaintClass(buf, arr, cls, opacity), arr, cls + 1,
                        rmax, opacity)

RECURSIVE PaintRange(_, _, _, _, _)
\* for cls in range(cls, rmax + 1): paint the pixels of class cls
PaintRange(buf, arr, cls, rmax, opacity) ==
    IF cls > rmax THEN buf
    ELSE PaintRange(PaintClass(buf, arr, cls, opacity), arr, cls + 1,
                    rmax, opacity)

\* rgba[np.isnan(arr)] = [0, 0, 0, 0]
ClearNaN(buf, arr) ==
    [buf EXCEPT !.px =
        [p \in DOMAIN buf.px |->
            IF isnan(arr[p]) THEN <<0, 0, 0, 0>> ELSE buf.px[p]]]

\* A mutation of the mask: the buffer is returned untouched.
mask_not_applied(buf, mask_arr) == buf

\* apply_comuna_mask(rgba, mask_arr)
apply_comuna_mask(buf, mask_arr) ==
    IF mask_arr = None THEN buf
    ELSE [buf EXCEPT !.px =
            [p \in DOMAIN buf.px |->
                IF ~mask_arr[1][p] THEN <<0, 0, 0, 0>> ELSE buf.px[p]]]

\* Reciprocal of the 1e-6 added to the denominator of the normalisation.
EpsInv == 1000000

\* np.clip((sample - vmin) / (vmax - vmin + 1e-6), 0.0, 1.0) as a fraction
\* num/den; NaN stays NaN (den = 0).
NormOf(sample, vmin, vmax) ==
    LET d == (vmax - vmin) * EpsInv + 1
        n == (sample.v - vmin) * EpsInv
        pn == IF d < 0 THEN -n ELSE n
        pd == IF d < 0 THEN -d ELSE d
    IN  CASE sample.k = "nan" -> [num |-> 0, den |-> 0]
          [] sample.k = "inf" ->
                IF (sample.v > 0) = (d > 0) THEN [num |-> 1, den |-> 1]
                ELSE [num |-> 0, den |-> 1]
          [] OTHER ->
                IF pn <= 0 THEN [num |-> 0, den |-> 1]
                ELSE IF pn >= pd THEN [num |-> 1, den |-> 1]
                ELSE [num |-> pn, den |-> pd]

\* (cmap(norm) * 255).astype("uint8")[channel]: the ramp's colour at norm.
RampChannel(cmap_name, norm, channel) ==
    [cmap |-> cmap_name, at |-> norm, ch |-> channel]

\* A mutation of the guard: no output only when both ends are missing.
BothEndsMissing(vmin, vmax) == vmin = None /\ vmax = None

\* vmin is None or vmax is None
RangeMissing(vmin, vmax) == vmin = None \/ vmax = None

\* rgba = (cmap(norm) * 255).astype("uint8"): every pixel gets the ramp's
\* colour at its normalised sample, opaque; a NaN gets the ramp's "bad"
\* colour, which is transparent black.
RampBuffer(arr, shape, vmin, vmax, cmap_name) ==
    [shape |-> <<shape[1], shape[2], 4>>,
     px |-> [p \in PixelsOf(shape[1], shape[2]) |->
                IF isnan(arr[p]) THEN <<0, 0, 0, 0>>
                ELSE <<RampChannel(cmap_name, NormOf(arr[p], vmin, vmax), "r"),
                       RampChannel(cmap_name, NormOf(arr[p], vmin, vmax), "g"),
                       RampChannel(cmap_name, NormOf(arr[p], vmin, vmax), "b"),
                       255>>]]

\* rgba[..., 3] = (valid * opacity * 255).astype("uint8")
SetAlpha(buf, arr, opacity) ==
    [buf EXCEPT !.px =
        [p \in DOMAIN buf.px |->
            <<buf.px[p][1], buf.px[p][2], buf.px[p][3],
              (IF isfinite(arr[p]) THEN AlphaOf(opacity) ELSE 0)>>]]

\* rgba[~valid] = [0, 0, 0, 0]
ClearNonFinite(buf, arr) ==
    [buf EXCEPT !.px =
        [p \in DOMAIN buf.px |->
            IF ~isfinite(arr[p]) THEN <<0, 0, 0, 0>> ELSE buf.px[p]]]

\* The body of continuous_rgba between the guard and the mask.
ContinuousBuffer(arr, shape, vmin, vmax, cmap_name, opacity) ==
    ClearNonFinite(
        SetAlpha(RampBuffer(arr, shape, vmin, vmax, cmap_name), arr, opacity),
        arr)

\* ========================================================================
\* app/main.py : risk_rgba_for_range and continuous_rgba, one call
\* ========================================================================
FiresIdle ==
    /\ all_shps = <<>>
    /\ ref_exists = FALSE
    /\ pc = "idle"
    /\ i = 0
    /\ dst_meta = None
    /\ valid_fires = <<>>
    /\ latest = NoTuple
    /\ out_cumulative = NoFile
    /\ out_recent = NoFile

RiskCalls ==
    UNION {[fn : {"risk"}, shape : {shape}, arr : ArraysOf(shape, Samples),
            rmin : 0..MaxClass, rmax : 0..MaxClass,
            mask_arr : MasksOf(shape), opacity : Opacities] : shape \in Shapes}

ContinuousCalls ==
    UNION {[fn : {"continuous"}, shape : {shape},
            arr : ArraysOf(shape, ContSamples),
            vmin : RampEnds, vmax : RampEnds, cmap_name : CmapNames,
            mask_arr : MasksOf(shape), opacity : Opacities] : shape \in Shapes}

InitRender ==
    /\ call \in RiskCalls \cup ContinuousCalls
    /\ rpc = "entry"
    /\ rgba = NoBuffer
    /\ ret = None
    /\ FiresIdle
    /\ DownIdle
    /\ PipeIdle

\* risk_rgba_for_range: the buffer of zeros and the loop over the classes
RiskPaint ==
    /\ rpc = "entry"
    /\ call.fn = "risk"
    /\ rgba' = PaintRange(ZeroBuffer(call.shape), call.arr, call.rmin,
                          call.rmax, call.opacity)
    /\ rpc' = "nan"
    /\ UNCHANGED <<call, ret>>
    /\ UNCHANGED notRender

\* risk_rgba_for_range: the NaN pixels are cleared
RiskClearNaN ==
    /\ rpc = "nan"
    /\ rgba' = ClearNaN(rgba, call.arr)
    /\ rpc' = "mask"
    /\ UNCHANGED <<call, ret>>
    /\ UNCHANGED notRender

\* continuous_rgba: return None when an end of the range is missing
ContinuousNoRange ==
    /\ rpc = "entry"
    /\ call.fn = "continuous"
    /\ RangeMissing(call.vmin, call.vmax)
    /\ ret' = None
    /\ rpc' = "returned"
    /\ UNCHANGED <<call, rgba>>
    /\ UNCHANGED notRender

\* continuous_rgba: the buffer is computed; arithmetic on a None end raises
ContinuousColor ==
    /\ rpc = "entry"
    /\ call.fn = "continuous"
    /\ ~RangeMissing(call.vmin, call.vmax)
    /\ IF call.vmin = None \/ call.vmax = None
       THEN /\ rpc' = "error"
            /\ UNCHANGED rgba
       ELSE /\ rgba' = ContinuousBuffer(call.arr, call.shape, call.vmin[1],
                                        call.vmax[1], call.cmap_name,
                                        call.opacity)
            /\ rpc' = "mask"
    /\ UNCHANGED <<call, ret>>
    /\ UNCHANGED notRender

\* return apply_comuna_mask(rgba, mask_arr), in both renderers
ApplyMaskAndReturn ==
    /\ rpc = "mask"
    /\ rgba' = apply_comuna_mask(rgba, call.mask_arr)
    /\ ret' = Some(rgba')
    /\ rpc' = "returned"
    /\ UNCHANGED call
    /\ UNCHANGED notRender

NextRender ==
    \/ RiskPaint
    \/ RiskClearNaN
    \/ ContinuousNoRange
    \/ ContinuousColor
    \/ ApplyMaskAndReturn

SpecRender == InitRender /\ [][NextRender]_vars


\* ========================================================================
\* app/main.py : downsample_with_meta, one call
\* ========================================================================
\* Affine coefficients (a, b, c, d, e, f) of the grids handed in: pixel
\* sizes a and e, rotation terms b and d, translation c and f.
Transforms ==
    {<<a, b, c, d, e, f>> :
        a \in {1, 2}, b \in {0, 1}, c \in {0, 7}, d \in {0, 1},
        e \in {-1, -2}, f \in {0, 7}}

\* The arrays handed in hold a different value at every position, so that a
\* sample of the result tells which input element it came from.
ArrayOf(H, W) == [p \in (0..(H - 1)) \X (0..(W - 1)) |-> 100 * p[1] + p[2]]

DownCalls ==
    [H : 1..MaxDim, W : 1..MaxDim, factor : 1..MaxFactor,
     transform : Transforms]

\* meta_4326 of a call
MetaOf(c) ==
    [crs |-> "EPSG:4326", transform |-> c.transform, width |-> c.W,
     height |-> c.H, nodata |-> NaN]

RECURSIVE RangeStepFrom(_, _, _)
\* range(k, n, step) as a list
RangeStepFrom(k, n, step) ==
    IF k >= n THEN <<>> ELSE <<k>> \o RangeStepFrom(k + step, n, step)

\* A mutation of the slice: only the strides that fit whole are kept.
WholeStrides(n, step) ==
    IF n < step THEN <<>> ELSE RangeStepFrom(0, n - step + 1, step)

\* The indices the slice [::step] takes from an axis of length n
SliceIndices(n, step) == RangeStepFrom(0, n, step)

\* arr2d[::factor, ::factor]
StridedSlice(arr2d, H, W, factor) ==
    LET rows == SliceIndices(H, factor)
        cols == SliceIndices(W, factor)
    IN  [shape |-> <<Len(rows), Len(cols)>>,
         data |-> [p \in (0..(Len(rows) - 1)) \X (0..(Len(cols) - 1)) |->
                      arr2d[<<rows[p[1] + 1], cols[p[2] + 1]>>]]]

\* A mutation of the new transform: only the pixel width is multiplied.
ScaledWidthOnly(t, factor) ==
    <<t[1] * factor, t[2], t[3], t[4], t[5], t[6]>>

\* rasterio.Affine(t.a * factor, t.b, t.c, t.d, t.e * factor, t.f)
ScaledTransform(t, factor) ==
    <<t[1] * factor, t[2], t[3], t[4], t[5] * factor, t[6]>>

\* A mutation of meta_4326.copy(): meta_ds is the caller's dictionary itself,
\* so the caller sees what is stored into it.
CallerMetaAliased(meta_4326, meta_ds) == meta_ds

\* The caller's dictionary after the stores into meta_ds, which is a copy.
CallerMetaAfter(meta_4326, meta_ds) == meta_4326

InitDown ==
    /\ ds_call \in DownCalls
    /\ ds_pc = "slice"
    /\ ds_meta = MetaOf(ds_call)
    /\ ds_ret = [arr_ds |-> None, meta_ds |-> None]
    /\ FiresIdle
    /\ RenderIdle
    /\ PipeIdle

\* arr_ds = arr2d[::factor, ::factor]
DownSlice ==
    /\ ds_pc = "slice"
    /\ ds_ret' = [ds_ret EXCEPT !.arr_ds =
                    Some(StridedSlice(ArrayOf(ds_call.H, ds_call.W),
                                      ds_call.H, ds_call.W, ds_call.factor))]
    /\ ds_pc' = "meta"
    /\ UNCHANGED <<ds_call, ds_meta>>
    /\ UNCHANGED notDown

\* meta_ds = meta_4326.copy(); transform, width and height are stored; return
DownMeta ==
    /\ ds_pc = "meta"
    /\ LET meta_ds ==
              [ds_meta EXCEPT
                  !.transform = ScaledTransform(ds_meta.transform, ds_call.factor),
                  !.width = ds_ret.arr_ds[1].shape[2],
                  !.height = ds_ret.arr_ds[1].shape[1]]
       IN  /\ ds_ret' = [ds_ret EXCEPT !.meta_ds = Some(meta_ds)]
           /\ ds_meta' = CallerMetaAfter(ds_meta, meta_ds)
    /\ ds_pc' = "returned"
    /\ UNCHANGED ds_call
    /\ UNCHANGED notDown

NextDown ==
    \/ DownSlice
    \/ DownMeta

SpecDown == InitDown /\ [][NextDown]_vars

\* ========================================================================
\* Entry points that load rasters: preprocessing.main, load_map_layers
\* followed by build_map, and the loaders of pages/2_Simulacion.py
\* ========================================================================

\* The coordinate reference systems a raster can be in.
Crs == {"EPSG:4326", "EPSG:32718"}

\* Grid of the master raster srtm_valdivia.tif: CRS, affine transform
\* (a, b, c, d, e, f), width and height.
RefGrid ==
    [crs |-> "EPSG:4326",
     transform |-> <<3, 0, 6, 0, -3, 9>>,
     width |-> RefMeta.width,
     height |-> RefMeta.height]

\* The nodata value a raster file declares, if any.
Nodatas == {None, Some(Num(-99)), Some(NaN)}

\* What the last pixel of the destination grid falls on in a source raster:
\* a valid sample, a sample equal to the declared nodata, or nothing at all.
Edges == {"valid", "nodata", "outside"}

Absent == [exists |-> FALSE]

\* crs, nodata and footprint of the raster files that are present.
Profiles ==
    {f \in [exists : {TRUE}, crs : Crs, nodata : Nodatas, edge : Edges] :
        f.edge = "nodata" => f.nodata # None}

\* An event of the run: the stage performed, the function that performed it,
\* the layer it concerns and the details of the stage.
Event(op, fn, layer, info) == [op |-> op, fn |-> fn, layer |-> layer, info |-> info]

\* (left, bottom, right, top) of a grid of h rows and w columns
array_bounds(h, w, t) ==
    [left |-> t[3], bottom |-> t[6] + t[5] * h,
     right |-> t[3] + t[1] * w, top |-> t[6]]

\* A coordinate read in the units of crs, expressed in EPSG:4326.
To4326(x, crs) == IF crs = "EPSG:4326" THEN x ELSE 2 * x

\* rasterio.warp.calculate_default_transform(src_crs, "EPSG:4326", width,
\* height, left, bottom, right, top): the bounds are read as coordinates of
\* src_crs and the raster of that size is laid out in the destination CRS
\* with square pixels.
calculate_default_transform(src_crs, width, height, b) ==
    LET left == To4326(b.left, src_crs)
        bottom == To4326(b.bottom, src_crs)
        right == To4326(b.right, src_crs)
        top == To4326(b.top, src_crs)
        res == (right - left) \div width
    IN  [transform |-> <<res, 0, left, 0, -res, top>>,
         width |-> width,
         height |-> (top - bottom) \div res]

\* What each pixel of a destination grid of h rows and w columns falls on in
\* the source array: Some(sample) or None outside the source's extent.
Under(f, h, w) ==
    [p \in PixelsOf(h, w) |->
        IF p # <<h, w>> THEN Some(Num(2))
        ELSE IF f.edge = "valid" THEN Some(Num(4))
        ELSE IF f.edge = "nodata" THEN f.nodata
        ELSE None]

\* rasterio.warp.reproject(source, destination, src_nodata=, dst_nodata=)
\* with init_dest_nodata left True: a pixel with no source sample, or whose
\* sample equals src_nodata, receives dst_nodata, which defaults to
\* src_nodata and then to 0; the others receive the resampled value.
\* src_nodata is the argument, or the band's nodata when the source is a
\* rasterio band and the argument is not given.
reproject(under, src_nodata, dst_nodata, destination) ==
    LET fill == IF dst_nodata # None THEN dst_nodata[1]
                ELSE IF src_nodata # None THEN src_nodata[1]
                ELSE Num(0)
    IN  [p \in DOMAIN under |->
            IF under[p] = None \/ (src_nodata # None /\ under[p] = src_nodata)
            THEN fill
            ELSE under[p][1]]

\* The handle function fn holds on file.
Handle(fn, file) == [fn |-> fn, file |-> file]

\* The open handles after leaving "with rasterio.open(...) as h"
WithExit(open, h) == open \ {h}

\* The align_raster calls of main, in order: source file and output name.
AlignCalls ==
    <<[src |-> "srtm_valdivia.tif", out |-> "grid_altura.tif"],
      [src |-> "sentinel2_valdivia.tif", out |-> "grid_vegetacion.tif"],
      [src |-> "era5_wind_valdivia.tif", out |-> "grid_viento.tif"],
      [src |-> "14_amenaza.tif", out |-> "grid_amenaza.tif"],
      [src |-> "14_riesgo.tif", out |-> "grid_riesgo.tif"]>>

\* The rasters that hold class codes.
Categorical == {"14_amenaza.tif", "14_riesgo.tif"}

\* The master raster on disk: absent, or a raster of RefGrid.
MasterFiles ==
    {Absent, [exists |-> TRUE, crs |-> RefGrid.crs, nodata |-> None, edge |-> "valid"]}

\* The environments main of preprocessing.py can run in: each raster other
\* than the master is absent or present with the run's profile.
PreRaws ==
    {[n \in {AlignCalls[m].src : m \in 1..Len(AlignCalls)} |->
         IF n = "srtm_valdivia.tif" THEN master
         ELSE IF n \in present THEN f ELSE Absent] :
       master \in MasterFiles, f \in Profiles,
       present \in SUBSET {AlignCalls[m].src : m \in 2..Len(AlignCalls)}}

\* The shapefile directories main of preprocessing.py is run on.
PreShps == {<<>>} \cup {<<f>> : f \in {g \in ShpFiles : g.name = NameOf(Token2020)}}

\* A mutation of the existence test of align_raster: a missing source is
\* taken for a present one.
SourceAlwaysExists(f) == TRUE

\* os.path.exists(source_path)
SourceExists(f) == f.exists

\* resampling=Resampling.bilinear in align_raster
AlignResampling(src) == "bilinear"

\* State at the entry of main of preprocessing.py.
InitPre ==
    /\ prog = "preprocessing"
    /\ raw \in PreRaws
    /\ args = <<>>
    /\ ref_exists = raw["srtm_valdivia.tif"].exists
    /\ ppc = "align"
    /\ nth = 1
    /\ outs = [n \in {AlignCalls[m].out : m \in 1..Len(AlignCalls)} |-> NoFile]
    /\ handles = {}
    /\ events = <<>>
    /\ all_shps \in PreShps
    /\ pc = "idle"
    /\ i = 0
    /\ dst_meta = None
    /\ valid_fires = <<>>
    /\ latest = NoTuple
    /\ out_cumulative = NoFile
    /\ out_recent = NoFile
    /\ RenderIdle
    /\ DownIdle

\* if not os.path.exists(source_path): return
AlignSkip ==
    /\ prog = "preprocessing"
    /\ ppc = "align"
    /\ nth <= Len(AlignCalls)
    /\ ~SourceExists(raw[AlignCalls[nth].src])
    /\ nth' = nth + 1
    /\ UNCHANGED <<prog, raw, args, ppc, outs, handles, events>>
    /\ UNCHANGED <<firesVars, renderVars, downVars>>

\* dst_meta, _, dst_bounds = get_reference_meta(): the master is opened,
\* read and closed, or the exception of rasterio.open leaves main.
AlignGetReference ==
    /\ prog = "preprocessing"
    /\ ppc = "align"
    /\ nth <= Len(AlignCalls)
    /\ SourceExists(raw[AlignCalls[nth].src])
    /\ IF ref_exists
       THEN /\ ppc' = "open"
            /\ handles' = WithExit(handles \cup {Handle("get_reference_meta", "srtm_valdivia.tif")},
                       Handle("get_reference_meta", "srtm_valdivia.tif"))
            /\ events' = Append(events,
                   Event("grid", "get_reference_meta", AlignCalls[nth].out, RefGrid))
       ELSE /\ ppc' = "error"
            /\ UNCHANGED <<handles, events>>
    /\ UNCHANGED <<prog, raw, args, nth, outs>>
    /\ UNCHANGED <<firesVars, renderVars, downVars>>

\* with rasterio.open(source_path) as src: the source is opened, or the
\* exception of rasterio.open leaves main.
AlignOpenSource ==
    /\ prog = "preprocessing"
    /\ ppc = "open"
    /\ IF raw[AlignCalls[nth].src].exists
       THEN /\ handles' = handles \cup {Handle("align_raster", AlignCalls[nth].src)}
            /\ ppc' = "warp"
       ELSE /\ ppc' = "error"
            /\ UNCHANGED handles
    /\ UNCHANGED <<prog, raw, args, nth, outs, events>>
    /\ UNCHANGED <<firesVars, renderVars, downVars>>

\* The raster align_raster writes for source file f: the grid comes from
\* calculate_default_transform(src.crs, dst_meta['crs'], dst_meta['width'],
\* dst_meta['height'], *dst_bounds), the data from reproject into
\* np.zeros((height, width)) with the band's nodata and no dst_nodata.
AlignedRaster(src, f) ==
    LET g == calculate_default_transform(f.crs, RefGrid.width, RefGrid.height,
                 array_bounds(RefGrid.height, RefGrid.width, RefGrid.transform))
    IN  [written |-> TRUE,
         crs |-> RefGrid.crs,
         transform |-> g.transform,
         width |-> g.width,
         height |-> g.height,
         nodata |-> Some(Num(0)),
         dtype |-> "float32",
         data |-> reproject(Under(f, g.height, g.width), f.nodata, None, Num(0))]

\* The body of the with block of align_raster: transform, reproject, write
\* the output inside its own with block, leave both blocks and return.
AlignReprojectWrite ==
    /\ prog = "preprocessing"
    /\ ppc = "warp"
    /\ LET c == AlignCalls[nth]
           f == raw[c.src]
           r == AlignedRaster(c.src, f)
       IN  /\ outs' = [outs EXCEPT ![c.out] = r]
           /\ events' = Append(events,
                  Event("reproject", "align_raster", c.out,
                        [resampling |-> AlignResampling(c.src),
                         categorical |-> c.src \in Categorical,
                         under |-> Under(f, r.height, r.width),
                         src_nodata |-> f.nodata,
                         data |-> r.data]))
           /\ handles' = WithExit(WithExit(handles \cup {Handle("align_raster", c.out)},
                                           Handle("align_raster", c.out)),
                                  Handle("align_raster", c.src))
    /\ nth' = nth + 1
    /\ ppc' = "align"
    /\ UNCHANGED <<prog, raw, args>>
    /\ UNCHANGED <<firesVars, renderVars, downVars>>

\* process_fires(cumulative_output=..., recent_output=...) is entered
MainProcessFires ==
    /\ prog = "preprocessing"
    /\ ppc = "align"
    /\ nth > Len(AlignCalls)
    /\ ppc' = "fires"
    /\ pc' = "start"
    /\ UNCHANGED <<prog, raw, args, nth, outs, handles, events>>
    /\ UNCHANGED <<all_shps, ref_exists, i, dst_meta, valid_fires, latest,
                   out_cumulative, out_recent>>
    /\ UNCHANGED <<renderVars, downVars>>

\* process_fires returns and main ends, or its exception leaves main
MainEnd ==
    /\ prog = "preprocessing"
    /\ ppc = "fires"
    /\ pc \in {"done", "error"}
    /\ ppc' = pc
    /\ UNCHANGED <<prog, raw, args, nth, outs, handles, events>>
    /\ UNCHANGED <<firesVars, renderVars, downVars>>


\* ------------------------------------------------------------------------
\* load_map_layers followed by build_map (app/main.py)
\* ------------------------------------------------------------------------

\* The files load_map_layers cannot do without, and the optional ones.
MapRequired == {"14_riesgo.tif", "comuna_valdivia.shp"}
MapOptional ==
    {"sentinel2_valdivia_comuna.tif", "srtm_valdivia_comuna.tif",
     "era5_wind_valdivia_comuna.tif"}

\* The environments load_map_layers can run in.
MapRaws ==
    {[n \in MapRequired \cup MapOptional |-> IF n \in present THEN f ELSE Absent] :
       f \in Profiles, present \in SUBSET (MapRequired \cup MapOptional)}

\* Shape (rows, columns) of the risk raster cropped to the comuna, and the
\* downsample argument.
MapArgs == [shape : {<<1, 2>>, <<2, 3>>}, downsample : 1..MaxFactor]

\* The locals of load_map_layers before any of them is assigned.
NoLayers ==
    [meta_4326 |-> None, risk_ds |-> None, bounds |-> None,
     comuna_mask_ds |-> None,
     ndvi_ds |-> None, elev_ds |-> None, slope_ds |-> None, wind_ds |-> None,
     ndvi_vmin |-> None, ndvi_vmax |-> None,
     elev_vmin |-> None, elev_vmax |-> None,
     slope_vmin |-> None, slope_vmax |-> None,
     wind_vmin |-> None, wind_vmax |-> None]

\* A mutation of the index: the epsilon of the denominator is left out.
ndvi_without_epsilon(red, nir) ==
    [num |-> (nir - red) * EpsInv, den |-> (nir + red) * EpsInv]

\* ndvi = (nir - red) / (nir + red + 1e-6), as the fraction num / den
ndvi(red, nir) ==
    [num |-> (nir - red) * EpsInv, den |-> (nir + red) * EpsInv + 1]

\* The sample of a derived band where the source raster holds sample s in
\* each of its bands: NaN stays NaN; the index of two equal bands follows
\* ndvi; the magnitude sqrt(u**2 + v**2) is written for u = 0; the slope of
\* a finite sample is a finite angle, written 0.
DerivedSample(layer, s) ==
    IF isnan(s) THEN NaN
    ELSE IF layer = "ndvi" THEN Num(ndvi(s.v, s.v).num \div ndvi(s.v, s.v).den)
    ELSE IF layer = "wind" THEN Num(IF s.v < 0 THEN -s.v ELSE s.v)
    ELSE Num(0)

\* What each destination pixel falls on in the array of a derived band.
DerivedUnder(layer, under) ==
    [p \in DOMAIN under |->
        IF under[p] = None THEN None ELSE Some(DerivedSample(layer, under[p][1]))]

\* Arrays are indexed from 0 in StridedSlice.
ZeroBased(data, h, w) ==
    [p \in (0..(h - 1)) \X (0..(w - 1)) |-> data[<<p[1] + 1, p[2] + 1>>]]

\* downsample_with_meta(arr2d, meta_4326, factor) as a function
downsample_with_meta(data, meta_4326, factor) ==
    LET arr_ds == StridedSlice(ZeroBased(data, meta_4326.height, meta_4326.width),
                               meta_4326.height, meta_4326.width, factor)
    IN  [arr_ds |-> arr_ds,
         meta_ds |-> [meta_4326 EXCEPT
                         !.transform = ScaledTransform(meta_4326.transform, factor),
                         !.width = arr_ds.shape[2],
                         !.height = arr_ds.shape[1]]]

\* reproject_array_to_4326(arr2d, meta): the grid comes from
\* calculate_default_transform over the array's own bounds, the data from
\* reproject into an array full of NaN with src_nodata=meta.get("nodata")
\* and dst_nodata=NaN.
reproject_array_to_4326(f, shape) ==
    LET g == calculate_default_transform(f.crs, shape[2], shape[1],
                 array_bounds(shape[1], shape[2], RefGrid.transform))
        under == Under(f, g.height, g.width)
    IN  [under |-> under,
         dst |-> reproject(under, f.nodata, Some(NaN), NaN),
         meta_4326 |-> [crs |-> "EPSG:4326", transform |-> g.transform,
                        width |-> g.width, height |-> g.height,
                        nodata |-> Some(NaN)]]

\* reproject_to_meta(arr2d, src_meta, dst_meta): reproject into an array of
\* the destination's shape full of NaN with src_nodata=src_meta.get("nodata") and
\* dst_nodata=NaN.
reproject_to_meta(under, src_nodata, meta_dst) ==
    reproject(under, src_nodata, Some(NaN), NaN)

\* np.nanpercentile(arr, [2, 98]), taken as the least and the greatest of
\* the samples that are not NaN; NaN when there is none.
nanpercentile(arr_ds) ==
    LET vals == {arr_ds.data[p].v : p \in {q \in DOMAIN arr_ds.data : ~isnan(arr_ds.data[q])}}
    IN  IF vals = {} THEN <<NaN, NaN>>
        ELSE <<Num(CHOOSE v \in vals : \A u \in vals : v <= u),
               Num(CHOOSE v \in vals : \A u \in vals : v >= u)>>

\* The event of one reprojection.
ReprojectEvent(fn, layer, resampling, categorical, under, src_nodata, data) ==
    Event("reproject", fn, layer,
          [resampling |-> resampling, categorical |-> categorical,
           under |-> under, src_nodata |-> src_nodata, data |-> data])

\* A mutation of the order of a derived band's stages: the source band is
\* reprojected first and the derived band is computed on the target grid.
ReprojectThenDerive(layer, under, src_nodata, data) ==
    <<ReprojectEvent("reproject_to_meta", layer, "bilinear", FALSE, under, src_nodata, data),
      Event("derive", "load_map_layers", layer, <<>>),
      Event("downsample", "downsample_with_meta", layer, <<>>)>>

\* The stages of a derived band in load_map_layers: the band is computed
\* from the arrays read from the file, then reproject_to_meta, then
\* downsample_with_meta.
DerivedStages(layer, under, src_nodata, data) ==
    <<Event("derive", "load_map_layers", layer, <<>>),
      ReprojectEvent("reproject_to_meta", layer, "bilinear", FALSE, under, src_nodata, data),
      Event("downsample", "downsample_with_meta", layer, <<>>)>>

\* State at the entry of load_map_layers.
InitMap ==
    /\ prog = "map"
    /\ raw \in MapRaws
    /\ args \in MapArgs
    /\ ppc = "check"
    /\ nth = 0
    /\ outs = NoLayers
    /\ handles = {}
    /\ events = <<>>
    /\ FiresIdle
    /\ RenderIdle
    /\ DownIdle

\* The two existence tests, each raising FileNotFoundError, and
\* comuna = gpd.read_file(comuna_shp)
LoadCheckInputs ==
    /\ prog = "map"
    /\ ppc = "check"
    /\ IF raw["14_riesgo.tif"].exists /\ raw["comuna_valdivia.shp"].exists
       THEN /\ ppc' = "risk"
            /\ handles' = WithExit(handles \cup {Handle("load_map_layers", "comuna_valdivia.shp")},
                       Handle("load_map_layers", "comuna_valdivia.shp"))
       ELSE /\ ppc' = "error"
            /\ UNCHANGED handles
    /\ UNCHANGED <<prog, raw, args, nth, outs, events>>
    /\ UNCHANGED <<firesVars, renderVars, downVars>>

\* The risk raster is opened, masked and cropped to the comuna and closed;
\* then reproject_array_to_4326, downsample_with_meta and the bounds.
LoadRisk ==
    /\ prog = "map"
    /\ ppc = "risk"
    /\ LET f == raw["14_riesgo.tif"]
           r == reproject_array_to_4326(f, args.shape)
           d == downsample_with_meta(r.dst, r.meta_4326, args.downsample)
       IN  /\ outs' = [outs EXCEPT
                          !.meta_4326 = Some(r.meta_4326),
                          !.risk_ds = Some(d.arr_ds),
                          !.bounds = Some(array_bounds(d.meta_ds.height,
                                              d.meta_ds.width, d.meta_ds.transform))]
           /\ events' = events \o
                  <<Event("grid", "reproject_array_to_4326", "risk", r.meta_4326),
                    ReprojectEvent("reproject_array_to_4326", "risk", "nearest",
                                   TRUE, r.under, f.nodata, r.dst),
                    Event("downsample", "downsample_with_meta", "risk", <<>>)>>
    /\ handles' = WithExit(handles \cup {Handle("load_map_layers", "14_riesgo.tif")},
                       Handle("load_map_layers", "14_riesgo.tif"))
    /\ ppc' = "mask"
    /\ UNCHANGED <<prog, raw, args, nth>>
    /\ UNCHANGED <<firesVars, renderVars, downVars>>

\* The comuna is rasterized on the grid of meta_4326 (every pixel but the
\* last lies inside it) and the mask is downsampled.
LoadComunaMask ==
    /\ prog = "map"
    /\ ppc = "mask"
    /\ LET m == outs.meta_4326[1]
           comuna_mask_4326 ==
               [p \in PixelsOf(m.height, m.width) |-> p # <<m.height, m.width>>]
           d == downsample_with_meta(comuna_mask_4326, m, args.downsample)
       IN  outs' = [outs EXCEPT !.comuna_mask_ds = Some(d.arr_ds)]
    /\ events' = events \o
           <<Event("rasterize", "load_map_layers", "comuna_mask", <<>>),
             Event("downsample", "downsample_with_meta", "comuna_mask", <<>>)>>
    /\ ppc' = "s2"
    /\ UNCHANGED <<prog, raw, args, nth, handles>>
    /\ UNCHANGED <<firesVars, renderVars, downVars>>

\* A mutation of a derived band's last stage: the band is kept on the grid
\* of meta_4326, not downsampled.
DerivedLayerNotDownsampled(layer, f) ==
    LET m == outs.meta_4326[1]
        under == DerivedUnder(layer, Under(f, m.height, m.width))
        dst == reproject_to_meta(under, f.nodata, m)
    IN  [under |-> under, dst |-> dst,
         ds |-> downsample_with_meta(dst, m, 1).arr_ds]

\* The array a derived band gives on the grid of meta_4326, downsampled.
DerivedLayer(layer, f) ==
    LET m == outs.meta_4326[1]
        under == DerivedUnder(layer, Under(f, m.height, m.width))
        dst == reproject_to_meta(under, f.nodata, m)
    IN  [under |-> under, dst |-> dst,
         ds |-> downsample_with_meta(dst, m, args.downsample).arr_ds]

\* if s2_comuna.exists(): read, ndvi, reproject_to_meta, downsample
LoadNdvi ==
    /\ prog = "map"
    /\ ppc = "s2"
    /\ LET f == raw["sentinel2_valdivia_comuna.tif"]
       IN  IF f.exists
           THEN LET l == DerivedLayer("ndvi", f)
                IN  /\ outs' = [outs EXCEPT !.ndvi_ds = Some(l.ds),
                                            !.ndvi_vmin = Some(Num(-1)),
                                            !.ndvi_vmax = Some(Num(1))]
                    /\ events' = events \o DerivedStages("ndvi", l.under, f.nodata, l.dst)
                    /\ handles' = WithExit(handles \cup {Handle("load_map_layers", "sentinel2_valdivia_comuna.tif")},
                       Handle("load_map_layers", "sentinel2_valdivia_comuna.tif"))
           ELSE UNCHANGED <<outs, events, handles>>
    /\ ppc' = "srtm"
    /\ UNCHANGED <<prog, raw, args, nth>>
    /\ UNCHANGED <<firesVars, renderVars, downVars>>

\* if srtm_comuna.exists(): the elevation is read, reprojected and
\* downsampled; the slope is computed from the elevation as read, then
\* reprojected and downsampled.
LoadElevSlope ==
    /\ prog = "map"
    /\ ppc = "srtm"
    /\ LET f == raw["srtm_valdivia_comuna.tif"]
       IN  IF f.exists
           THEN LET m == outs.meta_4326[1]
                    under == Under(f, m.height, m.width)
                    elev_4326 == reproject_to_meta(under, f.nodata, m)
                    elev_ds == downsample_with_meta(elev_4326, m, args.downsample).arr_ds
                    s == DerivedLayer("slope", f)
                IN  /\ outs' = [outs EXCEPT
                                   !.elev_ds = Some(elev_ds),
                                   !.elev_vmin = Some(nanpercentile(elev_ds)[1]),
                                   !.elev_vmax = Some(nanpercentile(elev_ds)[2]),
                                   !.slope_ds = Some(s.ds),
                                   !.slope_vmin = Some(nanpercentile(s.ds)[1]),
                                   !.slope_vmax = Some(nanpercentile(s.ds)[2])]
                    /\ events' = events \o
                           <<ReprojectEvent("reproject_to_meta", "elev", "bilinear",
                                            FALSE, under, f.nodata, elev_4326),
                             Event("downsample", "downsample_with_meta", "elev", <<>>)>>
                           \o DerivedStages("slope", s.under, f.nodata, s.dst)
                    /\ handles' = WithExit(handles \cup {Handle("load_map_layers", "srtm_valdivia_comuna.tif")},
                       Handle("load_map_layers", "srtm_valdivia_comuna.tif"))
           ELSE UNCHANGED <<outs, events, handles>>
    /\ ppc' = "era5"
    /\ UNCHANGED <<prog, raw, args, nth>>
    /\ UNCHANGED <<firesVars, renderVars, downVars>>

\* if era5_comuna.exists(): read u and v, magnitude, reproject, downsample
LoadWind ==
    /\ prog = "map"
    /\ ppc = "era5"
    /\ LET f == raw["era5_wind_valdivia_comuna.tif"]
       IN  IF f.exists
           THEN LET l == DerivedLayer("wind", f)
                IN  /\ outs' = [outs EXCEPT !.wind_ds = Some(l.ds),
                                            !.wind_vmin = Some(nanpercentile(l.ds)[1]),
                                            !.wind_vmax = Some(nanpercentile(l.ds)[2])]
                    /\ events' = events \o DerivedStages("wind", l.under, f.nodata, l.dst)
                    /\ handles' = WithExit(handles \cup {Handle("load_map_layers", "era5_wind_valdivia_comuna.tif")},
                       Handle("load_map_layers", "era5_wind_valdivia_comuna.tif"))
           ELSE UNCHANGED <<outs, events, handles>>
    /\ ppc' = "return"
    /\ UNCHANGED <<prog, raw, args, nth>>
    /\ UNCHANGED <<firesVars, renderVars, downVars>>

\* return {...}: the dictionary of layers reaches the caller
LoadReturn ==
    /\ prog = "map"
    /\ ppc = "return"
    /\ ppc' = "build"
    /\ UNCHANGED <<prog, raw, args, nth, outs, handles, events>>
    /\ UNCHANGED <<firesVars, renderVars, downVars>>

\* A mutation of build_map: every continuous layer is rendered, whether it
\* is None or not.
OverlaysUnguarded(layers) ==
    LET over(l) == <<Event("composite", "build_map", l,
                           [vmin |-> layers[l \o "_vmin"],
                            vmax |-> layers[l \o "_vmax"]])>>
    IN  over("ndvi") \o over("elev") \o over("slope") \o over("wind")
        \o <<Event("composite", "build_map", "risk", <<>>)>>

\* The overlays of build_map, in the order they are added: each continuous
\* layer that is not None, then the risk layer.
Overlays(layers) ==
    LET over(l) == IF layers[l \o "_ds"] = None THEN <<>>
                   ELSE <<Event("composite", "build_map", l,
                                [vmin |-> layers[l \o "_vmin"],
                                 vmax |-> layers[l \o "_vmax"]])>>
    IN  over("ndvi") \o over("elev") \o over("slope") \o over("wind")
        \o <<Event("composite", "build_map", "risk", <<>>)>>

\* build_map(layers, risk_range)
BuildMap ==
    /\ prog = "map"
    /\ ppc = "build"
    /\ events' = events \o Overlays(outs)
    /\ ppc' = "done"
    /\ UNCHANGED <<prog, raw, args, nth, outs, handles>>
    /\ UNCHANGED <<firesVars, renderVars, downVars>>

\* ------------------------------------------------------------------------
\* The loaders of app/pages/2_Simulacion.py, in the order the page calls them
\* ------------------------------------------------------------------------

\* The stride of the slices of cargar_simulacion and cargar_topologia.
down_sample == 3

SimFiles == {"topologia_processed.tif", "14_riesgo.tif", "comuna_valdivia.shp"}

\* The environments the page can run in.
SimRaws ==
    {[n \in SimFiles |-> IF n \in present THEN f ELSE Absent] :
       f \in Profiles, present \in SUBSET SimFiles}

\* Width and height asked of cargar_riesgo_resampleado.
SimArgs == [width : 1..2, height : 1..2]

NoSimOutputs ==
    [topologia |-> None, sim_bounds |-> None, comuna_bounds |-> None, riesgo |-> None]

\* The open handles once a function that opened h without a with block and
\* without close() has returned: the dataset object is no longer referenced
\* and it is the garbage collector that closes it, at a time of its own.
UnscopedOnReturn(open, h) == {open \cup {h}, open \ {h}}

\* State when the page starts to load its data.
InitSim ==
    /\ prog = "simulacion"
    /\ raw \in SimRaws
    /\ args \in SimArgs
    /\ ppc = "topologia"
    /\ nth = 0
    /\ outs = NoSimOutputs
    /\ handles = {}
    /\ events = <<>>
    /\ FiresIdle
    /\ RenderIdle
    /\ DownIdle

\* return rasterio.open(".../topologia_processed.tif").read(1)[::down_sample, ::down_sample]
CargarTopologia ==
    /\ prog = "simulacion"
    /\ ppc = "topologia"
    /\ IF raw["topologia_processed.tif"].exists
       THEN /\ handles' \in UnscopedOnReturn(handles, Handle("cargar_topologia", "topologia_processed.tif"))
            /\ outs' = [outs EXCEPT !.topologia =
                           Some(StridedSlice(ArrayOf(MaxDim, MaxDim), MaxDim, MaxDim,
                                             down_sample))]
            /\ ppc' = "bounds_topologia"
       ELSE /\ ppc' = "error"
            /\ UNCHANGED <<handles, outs>>
    /\ UNCHANGED <<prog, raw, args, nth, events>>
    /\ UNCHANGED <<firesVars, renderVars, downVars>>

\* with rasterio.open(topo_path) as src: return transform_bounds(src.crs,
\* "EPSG:4326", *src.bounds)
ObtenerBoundsTopologia ==
    /\ prog = "simulacion"
    /\ ppc = "bounds_topologia"
    /\ LET f == raw["topologia_processed.tif"]
           b == array_bounds(MaxDim, MaxDim, RefGrid.transform)
       IN  outs' = [outs EXCEPT !.sim_bounds =
                       Some([left |-> To4326(b.left, f.crs),
                             bottom |-> To4326(b.bottom, f.crs),
                             right |-> To4326(b.right, f.crs),
                             top |-> To4326(b.top, f.crs)])]
    /\ handles' = WithExit(handles \cup {Handle("obtener_bounds_topologia_4326", "topologia_processed.tif")},
                       Handle("obtener_bounds_topologia_4326", "topologia_processed.tif"))
    /\ ppc' = "bounds_comuna"
    /\ UNCHANGED <<prog, raw, args, nth, events>>
    /\ UNCHANGED <<firesVars, renderVars, downVars>>

\* obtener_bounds_comuna_4326(): the existence test, gpd.read_file, total_bounds
ObtenerBoundsComuna ==
    /\ prog = "simulacion"
    /\ ppc = "bounds_comuna"
    /\ IF raw["comuna_valdivia.shp"].exists
       THEN /\ outs' = [outs EXCEPT !.comuna_bounds =
                           Some(array_bounds(args.height, args.width, RefGrid.transform))]
            /\ handles' = WithExit(handles \cup {Handle("obtener_bounds_comuna_4326", "comuna_valdivia.shp")},
                       Handle("obtener_bounds_comuna_4326", "comuna_valdivia.shp"))
            /\ ppc' = "riesgo"
       ELSE /\ ppc' = "error"
            /\ UNCHANGED <<handles, outs>>
    /\ UNCHANGED <<prog, raw, args, nth, events>>
    /\ UNCHANGED <<firesVars, renderVars, downVars>>

\* cargar_riesgo_resampleado(width, height, bounds): the existence tests,
\* the risk raster masked inside its with block, then reproject with the
\* nearest kernel into an array of (height, width) full of NaN.
CargarRiesgoResampleado ==
    /\ prog = "simulacion"
    /\ ppc = "riesgo"
    /\ LET f == raw["14_riesgo.tif"]
       IN  IF f.exists /\ raw["comuna_valdivia.shp"].exists
           THEN LET under == Under(f, args.height, args.width)
                    dst == reproject(under, f.nodata, Some(NaN), NaN)
                IN  /\ outs' = [outs EXCEPT !.riesgo = Some(dst)]
                    /\ events' = Append(events,
                           ReprojectEvent("cargar_riesgo_resampleado", "risk",
                                          "nearest", TRUE, under, f.nodata, dst))
                    /\ handles' =
                           WithExit(
                               WithExit(handles \cup {Handle("cargar_riesgo_resampleado", "comuna_valdivia.shp")},
                                        Handle("cargar_riesgo_resampleado", "comuna_valdivia.shp"))
                                   \cup {Handle("cargar_riesgo_resampleado", "14_riesgo.tif")},
                               Handle("cargar_riesgo_resampleado", "14_riesgo.tif"))
                    /\ ppc' = "done"
           ELSE /\ ppc' = "error"
                /\ UNCHANGED <<outs, events, handles>>
    /\ UNCHANGED <<prog, raw, args, nth>>
    /\ UNCHANGED <<firesVars, renderVars, downVars>>

\* One run of any of the three entry points.
InitPipe == InitPre \/ InitMap \/ InitSim

NextPipe ==
    \/ AlignSkip
    \/ AlignGetReference
    \/ AlignOpenSource
    \/ AlignReprojectWrite
    \/ MainProcessFires
    \/ MainEnd
    \/ ReturnNoShapefiles
    \/ GetReferenceMeta
    \/ ExamineShp
    \/ WriteEmpty
    \/ WriteCumulative
    \/ WriteRecent
    \/ LoadCheckInputs
    \/ LoadRisk
    \/ LoadComunaMask
    \/ LoadNdvi
    \/ LoadElevSlope
    \/ LoadWind
    \/ LoadReturn
    \/ BuildMap
    \/ CargarTopologia
    \/ ObtenerBoundsTopologia
    \/ ObtenerBoundsComuna
    \/ CargarRiesgoResampleado

SpecPipe == InitPipe /\ [][NextPipe]_vars

\* ------------------------------------------------------------------------
\* The index of load_map_layers on one pixel
\* ------------------------------------------------------------------------

\* The samples of the red and near infrared bands: 0..MaxSample.
MaxSample == 12

\* State before the index of a pixel is computed from its two samples.
InitNdvi ==
    /\ prog = "ndvi"
    /\ raw = <<>>
    /\ args \in [red : 0..MaxSample, nir : 0..MaxSample]
    /\ ppc = "call"
    /\ nth = 0
    /\ outs = None
    /\ handles = {}
    /\ events = <<>>
    /\ FiresIdle
    /\ RenderIdle
    /\ DownIdle

\* ndvi = (nir - red) / (nir + red + 1e-6)
ComputeNdvi ==
    /\ prog = "ndvi"
    /\ ppc = "call"
    /\ outs' = Some(ndvi(args.red, args.nir))
    /\ ppc' = "returned"
    /\ UNCHANGED <<prog, raw, args, nth, handles, events>>
    /\ UNCHANGED <<firesVars, renderVars, downVars>>

SpecNdvi == InitNdvi /\ [][ComputeNdvi]_vars

\* ------------------------------------------------------------------------
\* The slope band of load_map_layers
\* ------------------------------------------------------------------------

\* np.gradient needs two samples at least along each axis.
SlopeShapes == (2..MaxDim) \X (2..MaxDim)

\* The elevation bands: level, or level but for one raised pixel.
ElevBands(shape) ==
    {[p \in PixelsOf(shape[1], shape[2]) |-> IF p = bump THEN base + 1 ELSE base] :
        base \in {0, 5},
        bump \in PixelsOf(shape[1], shape[2]) \cup {<<0, 0>>}}

\* Pixel spacings transform[0] and transform[4]; the latter is negative in a
\* north-up raster.
Spacings == {-3, -1, 1, 3}

\* A mutation of the gradient: the two ends take the neighbouring sample
\* over the spacing instead of the first difference.
gradient_ends_undifferenced(f, n, j, h) ==
    IF j = 1 THEN [num |-> f[2], den |-> h]
    ELSE IF j = n THEN [num |-> f[n - 1], den |-> h]
    ELSE [num |-> f[j + 1] - f[j - 1], den |-> 2 * h]

\* np.gradient along one axis of n samples f[1..n] with spacing h, at
\* position j, as the fraction num / den: central difference inside,
\* one-sided first difference at the two ends.
gradient(f, n, j, h) ==
    IF j = 1 THEN [num |-> f[2] - f[1], den |-> h]
    ELSE IF j = n THEN [num |-> f[n] - f[n - 1], den |-> h]
    ELSE [num |-> f[j + 1] - f[j - 1], den |-> 2 * h]

\* slope = np.arctan(np.sqrt(dx**2 + dy**2)) * 180 / np.pi at pixel p. The
\* angle is kept as the square of its tangent, dx**2 + dy**2, a fraction
\* that is 0 exactly when the angle is 0 degrees.
SlopeAt(elev, shape, p, sy, sx) ==
    LET dy == gradient([r \in 1..shape[1] |-> elev[<<r, p[2]>>]], shape[1], p[1], sy)
        dx == gradient([c \in 1..shape[2] |-> elev[<<p[1], c>>]], shape[2], p[2], sx)
    IN  [num |-> dx.num * dx.num * dy.den * dy.den + dy.num * dy.num * dx.den * dx.den,
         den |-> dx.den * dx.den * dy.den * dy.den]

\* State before the slope of an elevation band is computed.
InitSlope ==
    /\ prog = "slope"
    /\ raw = <<>>
    /\ args \in UNION {[shape : {sh}, elev : ElevBands(sh), sy : Spacings, sx : Spacings] :
                          sh \in SlopeShapes}
    /\ ppc = "call"
    /\ nth = 0
    /\ outs = None
    /\ handles = {}
    /\ events = <<>>
    /\ FiresIdle
    /\ RenderIdle
    /\ DownIdle

\* dy, dx = np.gradient(elev, transform[4], transform[0]); slope = ...
ComputeSlope ==
    /\ prog = "slope"
    /\ ppc = "call"
    /\ outs' = Some([p \in PixelsOf(args.shape[1], args.shape[2]) |->
                        SlopeAt(args.elev, args.shape, p, args.sy, args.sx)])
    /\ ppc' = "returned"
    /\ UNCHANGED <<prog, raw, args, nth, handles, events>>
    /\ UNCHANGED <<firesVars, renderVars, downVars>>

SpecSlope == InitSlope /\ [][ComputeSlope]_vars

\* ------------------------------------------------------------------------
\* extract_date_from_filename on one file name
\* ------------------------------------------------------------------------

\* Longest run of digits in the file names tried.
MaxRun == 9

DigitChar(d) ==
    CASE d = 0 -> "0" [] d = 1 -> "1" [] d = 2 -> "2" [] d = 3 -> "3"
      [] d = 4 -> "4" [] d = 5 -> "5" [] d = 6 -> "6" [] d = 7 -> "7"
      [] d = 8 -> "8" [] d = 9 -> "9"

\* The run of n digits that counts up from digit d.
RunFrom(d, n) == [j \in 1..n |-> DigitChar((d + j - 1) % 10)]

\* File names with one or two runs of digits: an optional letter, a run of
\* 0..MaxRun digits, "_", nothing or a run of DateLen digits, ".shp".
DatedNames ==
    {head \o RunFrom(d, n) \o <<"_">> \o tail \o Ext :
        head \in {<<>>, <<"F">>},
        d \in 1..2,
        n \in 0..MaxRun,
        tail \in {<<>>, RunFrom(3, DateLen)}}

\* State before the date of a file name is extracted.
InitDate ==
    /\ prog = "date"
    /\ raw = <<>>
    /\ args \in DatedNames
    /\ ppc = "call"
    /\ nth = 0
    /\ outs = None
    /\ handles = {}
    /\ events = <<>>
    /\ FiresIdle
    /\ RenderIdle
    /\ DownIdle

\* extract_date_from_filename(filename)
ExtractDate ==
    /\ prog = "date"
    /\ ppc = "call"
    /\ outs' = Some(extract_date_from_filename(args))
    /\ ppc' = "returned"
    /\ UNCHANGED <<prog, raw, args, nth, handles, events>>
    /\ UNCHANGED <<firesVars, renderVars, downVars>>

SpecDate == InitDate /\ [][ExtractDate]_vars

\* ========================================================================
\* The download script: src/data_download.py
\* ========================================================================

\* Most values after --sources on the command line.
MaxSources == 2

\* The keys of available_sources, in the order of the dictionary.
available_sources == <<"srtm", "sentinel2", "era5", "pangaea", "conaf", "comuna">>

\* The sources exported from Google Earth Engine.
GeeSources == {"srtm", "sentinel2", "era5"}

\* The file each GEE source writes.
target_file ==
    [s \in GeeSources |->
        IF s = "srtm" THEN "srtm_valdivia.tif"
        ELSE IF s = "sentinel2" THEN "sentinel2_valdivia.tif"
        ELSE "era5_wind_valdivia.tif"]

\* The elements of a list.
Elems(seq) == {seq[n] : n \in DOMAIN seq}

\* The lists --sources accepts: nargs='+' with choices the keys and 'all';
\* a value may be given more than once.
SourceArgs ==
    UNION {[1..n -> Elems(available_sources) \cup {"all"}] : n \in 1..MaxSources}

\* sources_to_run: every key if 'all' is among the values, else the values
SourcesToRun(sources) ==
    IF "all" \in Elems(sources) THEN available_sources ELSE sources

\* A mutation of the test before init_gee: GEE is always initialised.
gee_always_needed(sources_to_run) == TRUE

\* gee_needed = any(s in ['srtm', 'sentinel2', 'era5'] for s in sources_to_run)
gee_needed(sources_to_run) == Elems(sources_to_run) \cap GeeSources # {}

\* GEE_AVAILABLE as init_gee leaves it: True when ee.Initialize succeeds, or
\* when it fails and ee.Authenticate and the second ee.Initialize succeed;
\* False when the second attempt raises.
AvailableAfter(first, authenticate, second) ==
    first \/ (authenticate /\ second)

\* A mutation of the download functions: an export that raises is not
\* followed by the backup download.
StagesWithoutFallback(s, ncall, available, raised) ==
    <<Event("start", "download_" \o s, s, [call |-> ncall])>>
    \o (IF available
        THEN <<Event("export", "download_" \o s, s,
                     [call |-> ncall, raised |-> raised])>>
        ELSE <<Event("backup", "download_from_backup", s,
                     [call |-> ncall, filename |-> target_file[s]])>>)

\* download_srtm, download_sentinel2, download_era5: if GEE_AVAILABLE, the
\* export inside try, and download_from_backup(target_file) in the except;
\* else download_from_backup(target_file). download_from_backup catches what
\* its own download raises. (The test "image is None" of download_sentinel2
\* is never true: clip returns an ee.Image.)
DownloadStages(s, ncall, available, raised) ==
    <<Event("start", "download_" \o s, s, [call |-> ncall])>>
    \o (IF available
        THEN <<Event("export", "download_" \o s, s,
                     [call |-> ncall, raised |-> raised])>>
             \o (IF raised
                 THEN <<Event("backup", "download_from_backup", s,
                              [call |-> ncall, filename |-> target_file[s]])>>
                 ELSE <<>>)
        ELSE <<Event("backup", "download_from_backup", s,
                     [call |-> ncall, filename |-> target_file[s]])>>)

\* State at the entry of main: GEE_AVAILABLE = False at module level.
InitDownload ==
    /\ prog = "download"
    /\ raw = <<>>
    /\ args \in SourceArgs
    /\ ppc = "parse"
    /\ nth = 0
    /\ outs = [GEE_AVAILABLE |-> FALSE, sources_to_run |-> <<>>]
    /\ handles = {}
    /\ events = <<>>
    /\ FiresIdle
    /\ RenderIdle
    /\ DownIdle

\* args = parser.parse_args(); sources_to_run; gee_needed
ParseSources ==
    /\ prog = "download"
    /\ ppc = "parse"
    /\ outs' = [outs EXCEPT !.sources_to_run = SourcesToRun(args)]
    /\ ppc' = IF gee_needed(SourcesToRun(args)) THEN "init_gee" ELSE "run"
    /\ nth' = 1
    /\ UNCHANGED <<prog, raw, args, handles, events>>
    /\ UNCHANGED <<firesVars, renderVars, downVars>>

\* init_gee(): ee.Initialize; on an exception ee.Authenticate and
\* ee.Initialize again; on an exception there GEE_AVAILABLE = False
InitGee ==
    /\ prog = "download"
    /\ ppc = "init_gee"
    /\ \E first \in BOOLEAN, authenticate \in BOOLEAN, second \in BOOLEAN :
          /\ outs' = [outs EXCEPT
                         !.GEE_AVAILABLE = AvailableAfter(first, authenticate, second)]
          /\ events' = events \o
                 <<Event("init_gee", "init_gee", "gee",
                         [first |-> first,
                          retry |-> ~first /\ authenticate /\ second])>>
    /\ ppc' = "run"
    /\ UNCHANGED <<prog, raw, args, nth, handles>>
    /\ UNCHANGED <<firesVars, renderVars, downVars>>

\* available_sources[source]() for a source exported from GEE
RunGeeSource ==
    /\ prog = "download"
    /\ ppc = "run"
    /\ nth <= Len(outs.sources_to_run)
    /\ outs.sources_to_run[nth] \in GeeSources
    /\ \E raised \in BOOLEAN :
          events' = events \o DownloadStages(outs.sources_to_run[nth], nth,
                                             outs.GEE_AVAILABLE, raised)
    /\ nth' = nth + 1
    /\ UNCHANGED <<prog, raw, args, ppc, outs, handles>>
    /\ UNCHANGED <<firesVars, renderVars, downVars>>

\* available_sources[source]() for pangaea, conaf and comuna, which do not
\* use GEE and catch what their requests raise
RunOtherSource ==
    /\ prog = "download"
    /\ ppc = "run"
    /\ nth <= Len(outs.sources_to_run)
    /\ outs.sources_to_run[nth] \notin GeeSources
    /\ events' = events \o
           <<Event("start", "download_" \o outs.sources_to_run[nth],
                   outs.sources_to_run[nth], [call |-> nth])>>
    /\ nth' = nth + 1
    /\ UNCHANGED <<prog, raw, args, ppc, outs, handles>>
    /\ UNCHANGED <<firesVars, renderVars, downVars>>

\* print("Proceso finalizado.")
DownloadEnd ==
    /\ prog = "download"
    /\ ppc = "run"
    /\ nth > Len(outs.sources_to_run)
    /\ ppc' = "done"
    /\ UNCHANGED <<prog, raw, args, nth, outs, handles, events>>
    /\ UNCHANGED <<firesVars, renderVars, downVars>>

NextDownload ==
    \/ ParseSources
    \/ InitGee
    \/ RunGeeSource
    \/ RunOtherSource
    \/ DownloadEnd

SpecDownload == InitDownload /\ [][NextDownload]_vars





\* ========================================================================
\* Properties of process_fires
\* ========================================================================
\* Shapefiles that were read and hold a feature intersecting the region.
IntersectingFiles ==
    {k \in 1..Len(all_shps) :
        /\ all_shps[k].readable
        /\ \E geom \in all_shps[k].gdf : geom \cap BBoxCells # {}}

\* Features of shapefile k that intersect the region.
FeaturesIn(k) == {geom \in all_shps[k].gdf : geom \cap BBoxCells # {}}

\* The date token of a name, read off the model's three kinds of name.
DateOfName(name) ==
    IF name = NameOf(Token2010) THEN 20100101
    ELSE IF name = NameOf(Token2020) THEN 20201231
    ELSE 0

DateOfFile(k) == DateOfName(all_shps[k].name)

MaxDateFiles ==
    {k \in IntersectingFiles :
        \A m \in IntersectingFiles : DateOfFile(m) <= DateOfFile(k)}

\* The raster with 1 exactly at the pixels covered by one of the shapes.
BurntRaster(shapes) ==
    [height |-> RefMeta.height, width |-> RefMeta.width,
     data |-> [p \in BBoxCells |->
                  IF p \in UNION shapes THEN 1 ELSE 0]]

BackgroundRaster ==
    [height |-> RefMeta.height, width |-> RefMeta.width,
     data |-> [p \in BBoxCells |-> 0]]

\* C1: when at least one dated set intersects the region, the most-recent
\* output is the rasterization of exactly one set, which has the maximum
\* date among the intersecting sets; a set that does not intersect the
\* region is never the selected one.
C1_MostRecentIsMaxDate ==
    (pc = "done" /\ IntersectingFiles # {}) =>
        /\ latest.shp # 0
        /\ latest.shp \in MaxDateFiles
        /\ out_recent = BurntRaster(FeaturesIn(latest.shp))

\* C1 witness: an earlier set was selected although a later-dated set, which
\* does not intersect the region, was among the shapefiles.
C1_Witness ==
    /\ pc = "done"
    /\ latest.shp # 0
    /\ \E k \in 1..Len(all_shps) :
          /\ k \notin IntersectingFiles
          /\ all_shps[k].readable
          /\ all_shps[k].gdf # {}
          /\ DateOfFile(k) > DateOfFile(latest.shp)
    /\ \E p \in BBoxCells : out_recent.data[p] = 1

\* C2: the cumulative output is 1 at a pixel if and only if a feature that
\* intersects the region, of any shapefile that was read, covers the pixel:
\* the union over the set of shapefiles, whatever their order.
C2_CumulativeIsUnion ==
    (pc \in {"recent", "done"} /\ IntersectingFiles # {}) =>
        /\ out_cumulative # NoFile
        /\ \A p \in BBoxCells :
              out_cumulative.data[p] = 1 <=>
                  \E k \in IntersectingFiles : \E geom \in FeaturesIn(k) : p \in geom

\* C2 witness: two shapefiles each contributed a different pixel of the
\* cumulative output.
C2_Witness ==
    /\ pc = "done"
    /\ Cardinality(IntersectingFiles) >= 2
    /\ \E k, m \in IntersectingFiles : \E p, q \in BBoxCells :
          /\ p # q
          /\ {p} \in FeaturesIn(k) /\ {p} \notin FeaturesIn(m)
          /\ {q} \in FeaturesIn(m) /\ {q} \notin FeaturesIn(k)
          /\ out_cumulative.data[p] = 1
          /\ out_cumulative.data[q] = 1

\* C3: if no vector set intersects the region (the master raster being
\* there), the run raises no error and both outputs are all-background
\* rasters of the master grid's height and width.
C3_EmptyIntersectionYieldsBackground ==
    (pc \in {"done", "error"} /\ ref_exists /\ IntersectingFiles = {}) =>
        /\ pc = "done"
        /\ out_cumulative = BackgroundRaster
        /\ out_recent = BackgroundRaster

\* C4: every run that returns normally has produced both raster outputs,
\* the run over no shapefile at all included.
C4_BothOutputsProduced ==
    pc = "done" => (out_cumulative # NoFile /\ out_recent # NoFile)

\* C5: when several intersecting sets share the maximum date, the one chosen
\* is the first of them in the input order, so the choice is a function of
\* the input order alone.
C5_TieBreakFirstInInputOrder ==
    (pc = "done" /\ IntersectingFiles # {}) =>
        /\ latest.shp # 0
        /\ latest.shp \in MaxDateFiles
        /\ \A k \in MaxDateFiles : latest.shp <= k

\* C5 witness: two intersecting sets with different features share the
\* maximum date and the first in input order was chosen.
C5_Witness ==
    /\ pc = "done"
    /\ latest.shp # 0
    /\ \E k \in MaxDateFiles :
          /\ k > latest.shp
          /\ FeaturesIn(k) # FeaturesIn(latest.shp)
    /\ out_recent = BurntRaster(FeaturesIn(latest.shp))

\* File names of the model that hold no run of 8 digits.
Undated(name) == name = NameOf(<<"C", "L">>)

\* C6: a set whose name holds no 8-digit date is no error: it gets the date
\* 0, its features are in the cumulative output, and it is the most recent
\* one only when no intersecting set has a date greater than 0.
C6_UndatedSetGetsSentinel ==
    \A k \in IntersectingFiles :
        Undated(all_shps[k].name) =>
            /\ pc # "error" \/ ~ref_exists
            /\ \A n \in 1..Len(valid_fires) :
                  valid_fires[n].shp = k => valid_fires[n].date = 0
            /\ (pc \in {"loop", "recent", "done"} /\ i > k) =>
                  \E n \in 1..Len(valid_fires) : valid_fires[n].shp = k
            /\ pc = "done" =>
                  /\ out_cumulative # NoFile
                  /\ \A geom \in FeaturesIn(k) : \A p \in geom :
                        out_cumulative.data[p] = 1
                  /\ (latest.shp = k =>
                        \A m \in IntersectingFiles : DateOfFile(m) <= 0)

\* C6 witness: an undated set and a dated set both intersect; the undated
\* one's pixel is in the cumulative output and the dated one was selected.
C6_Witness ==
    /\ pc = "done"
    /\ \E k, m \in IntersectingFiles :
          /\ Undated(all_shps[k].name)
          /\ DateOfFile(m) > 0
          /\ latest.shp = m
          /\ \E p \in BBoxCells :
                /\ {p} \in FeaturesIn(k)
                /\ {p} \notin FeaturesIn(m)
                /\ out_cumulative.data[p] = 1
                /\ out_recent.data[p] = 0

\* C6 second case: only undated sets intersect and one of them is selected.
C6_UndatedSelected ==
    /\ pc = "done"
    /\ latest.shp # 0
    /\ Undated(all_shps[latest.shp].name)

\* ========================================================================
\* Properties of the renderers
\* ========================================================================
\* The pixel is inside the boundary mask, or no mask was given.
Unmasked(p) == call.mask_arr = None \/ call.mask_arr[1][p]

\* int(opacity * 255) for the call's opacity.
ExpectedAlpha == (call.opacity * 255) \div 100

\* C7: risk_rgba_for_range gives a pixel whose class code is within
\* [rmin, rmax] the scheme's colour of that code and alpha
\* int(opacity*255); a pixel whose class is outside the range, or whose
\* sample is not finite, has alpha 0.
C7_RiskRangeColours ==
    (rpc = "returned" /\ call.fn = "risk") =>
        \A p \in PixelsOf(call.shape[1], call.shape[2]) :
            LET s == call.arr[p]
                inRange == s.k = "num" /\ call.rmin <= s.v /\ s.v <= call.rmax
            IN  /\ (inRange /\ s.v \in 0..4 /\ Unmasked(p)) =>
                    ret[1].px[p] = <<CLASS_COLORS[s.v][1], CLASS_COLORS[s.v][2],
                                     CLASS_COLORS[s.v][3], ExpectedAlpha>>
                /\ ~inRange => ret[1].px[p][4] = 0

\* C7 witness: range (1, 4), no mask; a class-0 pixel is transparent and a
\* class-4 pixel has the colour of class 4 with alpha int(0.85*255).
C7_Witness ==
    /\ rpc = "returned"
    /\ call.fn = "risk"
    /\ call.rmin = 1 /\ call.rmax = 4
    /\ call.mask_arr = None
    /\ call.opacity = 85
    /\ \E p, q \in PixelsOf(call.shape[1], call.shape[2]) :
          /\ call.arr[p] = Num(0)
          /\ ret[1].px[p][4] = 0
          /\ call.arr[q] = Num(4)
          /\ ret[1].px[q] = <<215, 48, 39, 216>>

\* C8: in the buffer either renderer returns, every pixel where the boundary
\* mask is false has alpha 0, whatever its class or sample.
C8_MaskedPixelsTransparent ==
    (rpc = "returned" /\ ret # None /\ call.mask_arr # None) =>
        \A p \in PixelsOf(call.shape[1], call.shape[2]) :
            ~call.mask_arr[1][p] => ret[1].px[p][4] = 0

\* C8 witness: the mask is false everywhere, the buffer had a visible pixel
\* before the mask was applied, and every alpha of the result is 0.
C8_Witness ==
    /\ rpc = "returned"
    /\ ret # None
    /\ call.mask_arr # None
    /\ \A p \in PixelsOf(call.shape[1], call.shape[2]) :
          ~call.mask_arr[1][p] /\ ret[1].px[p][4] = 0
    /\ \E p \in PixelsOf(call.shape[1], call.shape[2]) :
          \/ /\ call.fn = "risk"
             /\ call.arr[p].k = "num"
             /\ call.rmin <= call.arr[p].v /\ call.arr[p].v <= call.rmax
          \/ /\ call.fn = "continuous"
             /\ call.arr[p].k = "num"

\* C9: continuous_rgba, before the mask is applied: a finite sample has
\* alpha int(opacity*255), a NaN or infinite sample has alpha 0, whatever
\* vmin, vmax and the sample's position relative to them.
C9_ContinuousAlpha ==
    (call.fn = "continuous" /\ (rpc = "mask" \/ (rpc = "returned" /\ ret # None))) =>
        \A p \in PixelsOf(call.shape[1], call.shape[2]) :
            /\ (call.arr[p].k = "num" /\ (rpc = "mask" \/ Unmasked(p))) =>
                   rgba.px[p][4] = ExpectedAlpha
            /\ call.arr[p].k # "num" => rgba.px[p][4] = 0

\* C9 witness: the buffer is built and not yet masked; one sample lies above
\* vmax and is drawn with the opacity, another is infinite and transparent.
C9_Witness ==
    /\ call.fn = "continuous"
    /\ rpc = "mask"
    /\ call.vmin = Some(1) /\ call.vmax = Some(3)
    /\ \E p, q \in PixelsOf(call.shape[1], call.shape[2]) :
          /\ call.arr[p] = Num(4)
          /\ rgba.px[p][4] = 153
          /\ call.arr[q] = PosInf
          /\ rgba.px[q][4] = 0

\* C10: continuous_rgba returns None, having built no buffer, exactly when
\* vmin or vmax is None; otherwise it returns a buffer of shape
\* (height, width, 4).
C10_NoOutputIffRangeMissing ==
    call.fn = "continuous" =>
        /\ rpc # "error"
        /\ rpc = "returned" =>
              /\ (ret = None) <=> (call.vmin = None \/ call.vmax = None)
              /\ ret = None => rgba = NoBuffer
              /\ ret # None =>
                    /\ ret[1].shape = <<call.shape[1], call.shape[2], 4>>
                    /\ DOMAIN ret[1].px = PixelsOf(call.shape[1], call.shape[2])
                    /\ \A p \in DOMAIN ret[1].px : Len(ret[1].px[p]) = 4

\* C10 witness: vmin is given, vmax is not, and the call returned None.
C10_Witness ==
    /\ call.fn = "continuous"
    /\ rpc = "returned"
    /\ call.vmin # None
    /\ call.vmax = None
    /\ ret = None
    /\ rgba = NoBuffer

\* C10 second case: both ends given, a buffer is returned.
C10_BufferReturned ==
    /\ call.fn = "continuous"
    /\ rpc = "returned"
    /\ call.vmin # None /\ call.vmax # None
    /\ ret # None

\* ========================================================================
\* Properties of downsample_with_meta
\* ========================================================================
\* The least q with q * step >= n, that is ceil(n / step).
CeilDiv(n, step) == CHOOSE q \in 0..n : q * step >= n /\ (q = 0 \/ (q - 1) * step < n)

\* C11: the result of downsample_with_meta has ceil(H/factor) rows and
\* ceil(W/factor) columns, its element (i, j) is the input element
\* (i*factor, j*factor), and the returned meta's height and width are the
\* result array's.
C11_StridedSubsample ==
    ds_pc = "returned" =>
        LET out == ds_ret.arr_ds[1]
            rows == CeilDiv(ds_call.H, ds_call.factor)
            cols == CeilDiv(ds_call.W, ds_call.factor)
        IN  /\ out.shape = <<rows, cols>>
            /\ DOMAIN out.data = (0..(rows - 1)) \X (0..(cols - 1))
            /\ \A p \in DOMAIN out.data :
                  out.data[p] = 100 * (p[1] * ds_call.factor)
                                    + p[2] * ds_call.factor
            /\ ds_ret.meta_ds[1].height = rows
            /\ ds_ret.meta_ds[1].width = cols

\* C11 witness: a 3 x 2 array taken with stride 2 gives 2 x 1, the last row
\* coming from a stride that does not fit whole.
C11_Witness ==
    /\ ds_pc = "returned"
    /\ ds_call.H = 3 /\ ds_call.W = 2 /\ ds_call.factor = 2
    /\ ds_ret.arr_ds[1].shape = <<2, 1>>
    /\ ds_ret.arr_ds[1].data[<<1, 0>>] = 200

\* C12: the new transform has the pixel sizes a and e multiplied by factor,
\* the rotation terms b, d and the translation c, f unchanged, and the
\* caller's meta dictionary is as it was before the call.
C12_TransformScaledOriginKept ==
    ds_pc = "returned" =>
        LET t == ds_call.transform
            u == ds_ret.meta_ds[1].transform
        IN  /\ u[1] = t[1] * ds_call.factor
            /\ u[5] = t[5] * ds_call.factor
            /\ u[2] = t[2] /\ u[4] = t[4]
            /\ u[3] = t[3] /\ u[6] = t[6]
            /\ ds_meta = MetaOf(ds_call)

\* C12 witness: a stride of 3 on a rotated, translated grid whose size is
\* not a multiple of the stride; the returned meta differs from the caller's.
C12_Witness ==
    /\ ds_pc = "returned"
    /\ ds_call.factor = 3
    /\ ds_call.H = 2
    /\ ds_call.transform = <<2, 1, 7, 1, -1, 7>>
    /\ ds_ret.meta_ds[1].transform = <<6, 1, 7, 1, -3, 7>>
    /\ ds_meta.transform = <<2, 1, 7, 1, -1, 7>>
    /\ ds_meta.height = 2 /\ ds_ret.meta_ds[1].height = 1


\* ========================================================================
\* Properties of the entry points
\* ========================================================================

\* C13: when the master raster is absent, main of preprocessing.py never
\* completes normally, whatever other inputs are present or absent.
C13_MasterAbsentRunFails ==
    (prog = "preprocessing" /\ ~ref_exists) => ppc # "done"

\* The grid of a written raster.
GridOf(r) ==
    [crs |-> r.crs, transform |-> r.transform, width |-> r.width, height |-> r.height]

\* C16: every raster written by align_raster has exactly the master raster's
\* grid: same CRS, affine transform, width and height, whatever the CRS of
\* the source.
C16_AlignedOutputsOnMasterGrid ==
    prog = "preprocessing" =>
        \A n \in DOMAIN outs : outs[n] # NoFile => GridOf(outs[n]) = RefGrid

\* C17: every reprojection of a raster of class codes uses the nearest
\* kernel and every reprojection of a continuous raster the bilinear one.
C17_KernelFollowsKind ==
    \A n \in DOMAIN events :
        events[n].op = "reproject" =>
            events[n].info.resampling =
                (IF events[n].info.categorical THEN "nearest" ELSE "bilinear")

\* The layers of load_map_layers that come from each optional file.
LayersOf ==
    [f \in MapOptional |->
        IF f = "sentinel2_valdivia_comuna.tif" THEN {"ndvi"}
        ELSE IF f = "srtm_valdivia_comuna.tif" THEN {"elev", "slope"}
        ELSE {"wind"}]

\* C14: a secondary source file that is absent only has its own layer
\* omitted: align_raster writes no file for it and load_map_layers leaves
\* the layer and its vmin and vmax None; no error is raised because of it
\* and every layer whose source is present is produced.
C14_MissingOptionalOnlyOmitsLayer ==
    /\ (prog = "preprocessing" /\ ref_exists) =>
          /\ ppc # "error"
          /\ \A n \in 2..Len(AlignCalls) :
                 /\ ~raw[AlignCalls[n].src].exists => outs[AlignCalls[n].out] = NoFile
                 /\ (raw[AlignCalls[n].src].exists /\ nth > n) =>
                        outs[AlignCalls[n].out] # NoFile
    /\ (prog = "map" /\ \A f \in MapRequired : raw[f].exists) =>
          /\ ppc # "error"
          /\ \A f \in MapOptional : \A l \in LayersOf[f] :
                 /\ ~raw[f].exists =>
                        /\ outs[l \o "_ds"] = None
                        /\ outs[l \o "_vmin"] = None
                        /\ outs[l \o "_vmax"] = None
                 /\ (raw[f].exists /\ ppc \in {"return", "build", "done"}) =>
                        outs[l \o "_ds"] # None

\* main of preprocessing.py has ended normally with the reflectance source
\* absent and the wind source present and aligned.
C14_Witness ==
    /\ prog = "preprocessing"
    /\ ppc = "done"
    /\ ~raw["sentinel2_valdivia.tif"].exists
    /\ outs["grid_vegetacion.tif"] = NoFile
    /\ raw["era5_wind_valdivia.tif"].exists
    /\ outs["grid_viento.tif"] # NoFile

\* load_map_layers has returned with the elevation source absent and the
\* reflectance source present.
C14_MapReturnedWithoutElevation ==
    /\ prog = "map"
    /\ ppc = "done"
    /\ ~raw["srtm_valdivia_comuna.tif"].exists
    /\ outs.elev_ds = None
    /\ outs.slope_ds = None
    /\ outs.ndvi_ds # None

\* The positions of the log that hold a stage op of a layer.
At(op, layer) ==
    {n \in DOMAIN events : events[n].op = op /\ events[n].layer = layer}

DerivedBands == {"ndvi", "slope", "wind"}

Missing(e) ==
    {p \in DOMAIN e.info.under :
        \/ e.info.under[p] = None
        \/ (e.info.src_nodata # None /\ e.info.under[p] = e.info.src_nodata)}

\* C18: in every reprojection a destination pixel without a source sample
\* holds NaN.
C18_MissingSamplesAreNaN ==
    \A n \in DOMAIN events :
        events[n].op = "reproject" =>
            \A p \in Missing(events[n]) : isnan(events[n].info.data[p])

\* C19: when a loading function has returned, no file handle it opened is
\* still open: a handle is open only inside the with block of its function.
C19_NoHandleHeldOnReturn ==
    \A h \in handles :
        prog = "preprocessing" /\ ppc = "warp" /\ h.fn = "align_raster"

\* C20: the index is (nir - red) / (nir + red + 1e-6), here in units of
\* 1e-6: the denominator is never zero, and the index is exactly 0 where
\* red equals nir.
C20_NdviZeroWhenBandsEqual ==
    (prog = "ndvi" /\ ppc = "returned") =>
        /\ outs[1].den # 0
        /\ outs[1].num = (args.nir - args.red) * EpsInv
        /\ outs[1].den = (args.nir + args.red) * EpsInv + 1
        /\ args.red = args.nir => outs[1].num = 0

\* The index has been computed for a pixel whose two samples are both zero.
C20_Witness ==
    /\ prog = "ndvi"
    /\ ppc = "returned"
    /\ args.red = 0
    /\ args.nir = 0
    /\ outs[1].num = 0

\* ========================================================================
\* Properties of the slope band, of the date token and of the class colours
\* ========================================================================

\* The elevation band of the call holds the same value at every pixel.
Level == \A p, q \in DOMAIN args.elev : args.elev[p] = args.elev[q]

\* C21: the slope band of an elevation band that holds the same value at
\* every pixel is exactly 0 at every pixel, whatever the non-zero pixel
\* spacings.
C21_LevelBandHasZeroSlope ==
    (prog = "slope" /\ ppc = "returned" /\ Level) =>
        \A p \in DOMAIN outs[1] : outs[1][p].den # 0 /\ outs[1][p].num = 0

\* The slope of a level band of 3 rows has been computed with a negative
\* row spacing.
C21_Witness ==
    /\ prog = "slope"
    /\ ppc = "returned"
    /\ Level
    /\ args.shape[1] = 3
    /\ args.sy < 0
    /\ args.elev[<<1, 1>>] = 5
    /\ \A p \in DOMAIN outs[1] : outs[1][p].num = 0

\* The slope of a band with one raised pixel is not 0 around that pixel.
C21_RaisedPixelHasSlope ==
    /\ prog = "slope"
    /\ ppc = "returned"
    /\ ~Level
    /\ \E p \in DOMAIN outs[1] : outs[1][p].num > 0

\* The positions where a run of exactly DateLen digits starts: DateLen
\* digits with no digit right before and none right after.
ExactRuns(filename) ==
    {s \in MatchStarts(filename) :
        /\ (s > 1 => filename[s - 1] \notin Digits)
        /\ (s + DateLen <= Len(filename) => filename[s + DateLen] \notin Digits)}

\* C22: extract_date_from_filename returns the integer value of a run of
\* exactly 8 consecutive digits when the name holds one, and 0 when the name
\* holds no run of exactly 8 digits.
C22_DateIsExactEightDigitRun ==
    (prog = "date" /\ ppc = "returned") =>
        IF ExactRuns(args) # {}
        THEN \E s \in ExactRuns(args) :
                 outs[1] = IntOfDigits(SubSeq(args, s, s + DateLen - 1))
        ELSE outs[1] = 0

\* C23: in risk_rgba_for_range a pixel whose class code has no entry in
\* CLASS_COLORS is fully transparent, for every requested range, the ranges
\* that contain the code included.
C23_UnknownClassTransparent ==
    (rpc = "returned" /\ call.fn = "risk") =>
        \A p \in PixelsOf(call.shape[1], call.shape[2]) :
            (call.arr[p].k = "num" /\ call.arr[p].v \notin DOMAIN CLASS_COLORS) =>
                ret[1].px[p][4] = 0

\* ========================================================================
\* Further properties of process_fires
\* ========================================================================

\* The tuple process_fires keeps for shapefile f found at position k, or
\* <<>> when the file is skipped.
TupleOfFile(f, k) ==
    IF ~f.readable \/ {geom \in f.gdf : Intersects(geom)} = {} THEN <<>>
    ELSE <<[date |-> extract_date_from_filename(f.name),
            gdf |-> {geom \in f.gdf : Intersects(geom)},
            name |-> f.name,
            shp |-> k]>>

RECURSIVE ValidFiresOn(_)
\* valid_fires after the loop over the collection shps.
ValidFiresOn(shps) ==
    IF shps = <<>> THEN <<>>
    ELSE ValidFiresOn(SubSeq(shps, 1, Len(shps) - 1))
             \o TupleOfFile(shps[Len(shps)], Len(shps))

\* The two outputs of a run of process_fires over the collection shps, the
\* master raster being there.
OutputsOn(shps) ==
    IF shps = <<>> THEN [cumulative |-> NoFile, recent |-> NoFile]
    ELSE IF ValidFiresOn(shps) = <<>>
    THEN [cumulative |-> zeros(RefMeta.height, RefMeta.width),
          recent |-> zeros(RefMeta.height, RefMeta.width)]
    ELSE [cumulative |-> rasterize(ConcatGdfs(ValidFiresOn(shps)),
                                   RefMeta.height, RefMeta.width),
          recent |-> rasterize(SortByDateDesc(ValidFiresOn(shps))[1].gdf,
                               RefMeta.height, RefMeta.width)]

\* The run that has ended gave the outputs of OutputsOn on its collection.
RunIsOutputsOn ==
    (pc = "done" /\ ref_exists) =>
        /\ out_cumulative = OutputsOn(all_shps).cumulative
        /\ out_recent = OutputsOn(all_shps).recent

\* The collection without the shapefiles whose reading fails.
WithoutFailing == SelectSeq(all_shps, LAMBDA f : f.readable)

\* C24: a failure on one shapefile only makes that file be skipped: the run
\* does not abort and its two outputs are those of the run over the
\* collection without the failing files.
C24_FailingFileOnlySkipped ==
    (pc \in {"done", "error"} /\ ref_exists /\ WithoutFailing # all_shps) =>
        /\ pc = "done"
        /\ out_cumulative = OutputsOn(WithoutFailing).cumulative
        /\ out_recent = OutputsOn(WithoutFailing).recent

\* C27: when at least one set intersects the region, every pixel that is 1
\* in the most-recent raster is 1 in the cumulative raster, and both rasters
\* have the master grid's height and width.
C27_RecentWithinCumulative ==
    (pc = "done" /\ IntersectingFiles # {}) =>
        /\ out_recent.height = RefMeta.height /\ out_recent.width = RefMeta.width
        /\ out_cumulative.height = RefMeta.height
        /\ out_cumulative.width = RefMeta.width
        /\ \A p \in BBoxCells :
              out_recent.data[p] = 1 => out_cumulative.data[p] = 1

\* The most-recent raster is that of the second of two intersecting sets and
\* the cumulative raster has a pixel more than it.
C27_Witness ==
    /\ pc = "done"
    /\ Cardinality(IntersectingFiles) = 2
    /\ latest.shp = 2
    /\ \E p, q \in BBoxCells :
          /\ out_recent.data[p] = 1 /\ out_cumulative.data[p] = 1
          /\ out_recent.data[q] = 0 /\ out_cumulative.data[q] = 1

\* ------------------------------------------------------------------------
\* Further properties of load_map_layers and downsample_with_meta
\* ------------------------------------------------------------------------

\* The arrays of the dictionary returned by load_map_layers.
LayerArrays == {"risk_ds", "comuna_mask_ds", "ndvi_ds", "elev_ds", "slope_ds", "wind_ds"}

\* C28: in the dictionary returned by load_map_layers the boundary mask and
\* every layer that is not None have the same shape, ceil(H/downsample) by
\* ceil(W/downsample) of the grid of meta_4326.
C28_LayersShareDownsampledShape ==
    (prog = "map" /\ ppc \in {"build", "done"}) =>
        /\ outs.risk_ds # None
        /\ outs.comuna_mask_ds # None
        /\ \A l \in LayerArrays :
              outs[l] # None =>
                  outs[l][1].shape =
                      <<CeilDiv(outs.meta_4326[1].height, args.downsample),
                        CeilDiv(outs.meta_4326[1].width, args.downsample)>>

\* load_map_layers has returned every layer, downsampled by a factor that
\* does not divide the width of the grid of meta_4326.
C28_Witness ==
    /\ prog = "map"
    /\ ppc = "done"
    /\ \A l \in LayerArrays : outs[l] # None
    /\ args.downsample > 1
    /\ outs.meta_4326[1].width % args.downsample # 0
    /\ outs.meta_4326[1].width > args.downsample

\* The continuous layers of the map.
ContinuousLayers == {"ndvi", "elev", "slope", "wind"}

\* C29: in the dictionary returned by load_map_layers a continuous layer is
\* not None if and only if both its vmin and its vmax are not None, and
\* every continuous layer build_map renders is rendered with a vmin and a
\* vmax that are not None, so continuous_rgba does not return None there.
C29_LayerAndRangeTogether ==
    (prog = "map") =>
        /\ \A l \in ContinuousLayers :
              (outs[l \o "_ds"] # None) <=>
                  (outs[l \o "_vmin"] # None /\ outs[l \o "_vmax"] # None)
        /\ \A n \in DOMAIN events :
              (events[n].op = "composite" /\ events[n].layer \in ContinuousLayers) =>
                  /\ outs[events[n].layer \o "_ds"] # None
                  /\ ~RangeMissing(events[n].info.vmin, events[n].info.vmax)

\* build_map has rendered the wind layer and the elevation layer is None
\* with its vmin and vmax.
C29_Witness ==
    /\ prog = "map"
    /\ ppc = "done"
    /\ At("composite", "wind") # {}
    /\ At("composite", "elev") = {}
    /\ outs.elev_ds = None /\ outs.elev_vmin = None /\ outs.elev_vmax = None
    /\ outs.wind_ds # None /\ outs.wind_vmin # None /\ outs.wind_vmax # None

\* The least and the greatest of a set of integers.
Least(S) == CHOOSE v \in S : \A u \in S : v <= u
Greatest(S) == CHOOSE v \in S : \A u \in S : v >= u

\* The footprint of a grid of h rows and w columns under transform t: the
\* box around the images (a*col + b*row + c, d*col + e*row + f) of its four
\* corners.
Footprint(h, w, t) ==
    LET xs == {t[1] * col + t[2] * row + t[3] : col \in {0, w}, row \in {0, h}}
        ys == {t[4] * col + t[5] * row + t[6] : col \in {0, w}, row \in {0, h}}
    IN  [left |-> Least(xs), bottom |-> Least(ys),
         right |-> Greatest(xs), top |-> Greatest(ys)]

\* The footprint of the grid the call returned starts at the corner of the
\* footprint of the grid handed in, contains it, exceeds it along each axis
\* by less than factor pixels of the grid handed in, and equals it exactly
\* when W and H are multiples of factor.
FootprintCovers ==
    LET t == ds_call.transform
        m == ds_ret.meta_ds[1]
        o == Footprint(ds_call.H, ds_call.W, t)
        n == Footprint(m.height, m.width, m.transform)
    IN  /\ n.left = o.left /\ n.top = o.top
        /\ n.right >= o.right /\ n.bottom <= o.bottom
        /\ n.right - o.right < ds_call.factor * t[1]
        /\ o.bottom - n.bottom < ds_call.factor * (-t[5])
        /\ (n = o) <=> (ds_call.W % ds_call.factor = 0
                        /\ ds_call.H % ds_call.factor = 0)

\* The grid handed in has no rotation terms.
NorthUp == ds_call.transform[2] = 0 /\ ds_call.transform[4] = 0

\* C30 as stated: for every factor and every grid the footprint of the grid
\* returned by downsample_with_meta starts at the original top-left corner,
\* contains the original footprint, exceeds it by fewer than factor original
\* pixels along each axis and equals it exactly when W and H are multiples
\* of factor.
C30_FootprintCoversEveryGrid ==
    ds_pc = "returned" => FootprintCovers

\* C30 for the grids without rotation terms, which are the grids
\* load_map_layers hands in: the footprint of the returned grid starts at
\* the original top-left corner, contains the original footprint, exceeds it
\* by fewer than factor original pixels along each axis and equals it
\* exactly when W and H are multiples of factor.
C30_FootprintCoversNorthUp ==
    (ds_pc = "returned" /\ NorthUp) =>
        /\ FootprintCovers
        /\ Footprint(ds_call.H, ds_call.W, ds_call.transform) =
               array_bounds(ds_call.H, ds_call.W, ds_call.transform)
        /\ Footprint(ds_ret.meta_ds[1].height, ds_ret.meta_ds[1].width,
                     ds_ret.meta_ds[1].transform) =
               array_bounds(ds_ret.meta_ds[1].height, ds_ret.meta_ds[1].width,
                            ds_ret.meta_ds[1].transform)

\* A grid of 3 columns and 2 rows without rotation terms came back from a
\* stride of 2: the footprint is one original pixel wider and as high.
C30_Witness ==
    /\ ds_pc = "returned"
    /\ NorthUp
    /\ ds_call.W = 3 /\ ds_call.H = 2 /\ ds_call.factor = 2
    /\ ds_call.transform = <<2, 0, 7, 0, -1, 7>>
    /\ array_bounds(ds_ret.meta_ds[1].height, ds_ret.meta_ds[1].width,
                    ds_ret.meta_ds[1].transform) =
           [left |-> 7, bottom |-> 5, right |-> 15, top |-> 7]

\* ========================================================================
\* Properties of the download script
\* ========================================================================

\* The positions of the log where stage op of the ncall-th download happened.
OfCall(op, ncall) ==
    {n \in DOMAIN events : events[n].op = op /\ events[n].info.call = ncall}

\* The positions of the list of sources to run that hold a GEE source.
GeeCalls ==
    {n \in DOMAIN outs.sources_to_run :
        n < nth /\ outs.sources_to_run[n] \in GeeSources}

\* GEE is unavailable exactly when both initialisation attempts failed, and
\* for each download of a GEE source that has run: the backup was attempted
\* if and only if GEE is unavailable or the export raised, no backup follows
\* an export that succeeded, and the backup was attempted at most once in
\* that download.
BackupOnlyAsFallback ==
    /\ \A n \in DOMAIN events :
          events[n].op = "init_gee" =>
              (outs.GEE_AVAILABLE <=> (events[n].info.first \/ events[n].info.retry))
    /\ \A c \in GeeCalls :
          /\ (OfCall("backup", c) # {}) <=>
                 (\/ ~outs.GEE_AVAILABLE
                  \/ \E n \in OfCall("export", c) : events[n].info.raised)
          /\ (\E n \in OfCall("export", c) : ~events[n].info.raised) =>
                 OfCall("backup", c) = {}
          /\ Cardinality(OfCall("backup", c)) <= 1
          /\ \A n \in OfCall("backup", c) :
                 events[n].info.filename = target_file[outs.sources_to_run[c]]

\* C25 as stated: for each of srtm, sentinel2 and era5 the backup download
\* is attempted if and only if GEE is unavailable or the export raised, no
\* backup is attempted when the export succeeds, and over the run of the
\* script the backup is attempted at most once per source.
C25_BackupOncePerSource ==
    (prog = "download") =>
        /\ BackupOnlyAsFallback
        /\ \A s \in GeeSources : Cardinality(At("backup", s)) <= 1

\* C25 with the count taken per run of a download function: the backup is
\* attempted if and only if GEE is unavailable or the export raised, never
\* after an export that succeeded, and at most once in each run of the
\* source's download function.
C25_BackupOncePerDownload ==
    (prog = "download") => BackupOnlyAsFallback

\* The script has ended with GEE available after the second attempt, one
\* export that raised and was followed by the backup, and one export that
\* succeeded and had none.
C25_Witness ==
    /\ prog = "download"
    /\ ppc = "done"
    /\ outs.GEE_AVAILABLE
    /\ \E n \in DOMAIN events :
          events[n].op = "init_gee" /\ ~events[n].info.first
    /\ \E c, d \in GeeCalls :
          /\ \E n \in OfCall("export", c) : events[n].info.raised
          /\ OfCall("backup", c) # {}
          /\ \E n \in OfCall("export", d) : ~events[n].info.raised
          /\ OfCall("backup", d) = {}

\* The sources whose download function has started, in the order of the log.
Started ==
    LET starts == SelectSeq(events, LAMBDA e : e.op = "start")
    IN  [n \in DOMAIN starts |-> starts[n].layer]

\* init_gee has been called if and only if the sources to run hold a GEE
\* source, at most once and before every download function; the download
\* functions have run in the order of the list of sources to run, one run
\* for each entry.
InitThenDownloadsInOrder ==
    /\ Cardinality(At("init_gee", "gee")) <= 1
    /\ (ppc \in {"run", "done"}) =>
          ((At("init_gee", "gee") # {}) <=>
               (Elems(SourcesToRun(args)) \cap GeeSources # {}))
    /\ \A n \in At("init_gee", "gee") : n = 1
    /\ Started = SubSeq(SourcesToRun(args), 1, Len(Started))
    /\ (ppc = "done") => Started = SourcesToRun(args)

\* C26 as stated: init_gee is called if and only if the sources to run
\* contain srtm, sentinel2 or era5, at most once and before the first
\* download function, and the download functions run once each in the
\* requested order.
C26_EachDownloadRunsOnce ==
    (prog = "download") =>
        /\ InitThenDownloadsInOrder
        /\ \A s \in Elems(available_sources) : Cardinality(At("start", s)) <= 1

\* C26 with a run for each entry: init_gee is called if and only if the
\* sources to run contain srtm, sentinel2 or era5, at most once and before
\* the first download function, and the download functions run in the
\* requested order, once for each entry of the list of sources to run.
C26_DownloadsFollowSourcesToRun ==
    (prog = "download") => InitThenDownloadsInOrder

\* The script has ended after init_gee and the downloads of pangaea and of
\* srtm, in that order.
C26_Witness ==
    /\ prog = "download"
    /\ ppc = "done"
    /\ args = <<"pangaea", "srtm">>
    /\ At("init_gee", "gee") = {1}
    /\ Started = <<"pangaea", "srtm">>

\* The script has ended without init_gee: no source to run uses GEE.
C26_EndedWithoutGee ==
    /\ prog = "download"
    /\ ppc = "done"
    /\ At("init_gee", "gee") = {}
    /\ Started = <<"conaf", "pangaea">>

====
